---------------------------- MODULE Spec2Model ----------------------------
(***************************************************************************)
(* A model of rust-ptp: the PTP-over-USB transaction engine                *)
(* (PtpCamera::command and its helpers), the container header parser, and  *)
(* the wire codec of strings and tagged Data values.                       *)
(*                                                                         *)
(* Representation notes.                                                   *)
(*  - A byte is a number in 0..255 and a buffer is a sequence of bytes.    *)
(*  - TLC's integers are 32-bit signed, so the values of u32/u64/i64       *)
(*    fields are drawn below 2^31; their encodings still have the full     *)
(*    width (4 or 8 bytes, two's complement).                              *)
(*  - A usize that wrapped below zero (release build) is represented by    *)
(*    its signed residue: -1 stands for 2^64 - 1.                          *)
(*  - Bulk payloads that may be megabytes long are represented by their    *)
(*    length and a content tag, not byte by byte.                          *)
(***************************************************************************)
EXTENDS Integers, Sequences, FiniteSets, TLC

VARIABLES
    overflow_checks,    \* build profile: TRUE = debug (arithmetic overflow panics)
    current_tid,        \* PtpCamera.current_tid
    pc,                 \* position of the caller inside command()
    req,                \* arguments of the running command(): code, params, data
    tid,                \* local `tid` of the running command()
    request_payload,    \* local `request_payload` of the running command()
    data_phase_payload, \* local `data_phase_payload` of the running command()
    container,          \* what read_txn_phase returned last in this call
    n_read,             \* containers read_txn_phase has returned in this call
    n_data,             \* those of them that were taken as the data-in phase
    log,                \* USB transfers issued by the running command(), in order
    result,             \* what the last command() returned
    tids,               \* history: the tid each command() call used, in call order
    disconnect_pc,      \* position of the caller inside disconnect()
    disconnect_result,  \* what the last disconnect() returned
    release_calls,      \* release_interface calls made on the claimed interface
    fn,                 \* codec harness: which codec function was applied
    arg,                \* codec harness: its input
    ret                 \* codec harness: its output

engine_vars == <<overflow_checks, current_tid, pc, req, tid, request_payload,
                 data_phase_payload, container, n_read, n_data, log, result, tids,
                 disconnect_pc, disconnect_result, release_calls>>
codec_vars == <<fn, arg, ret>>
vars == <<overflow_checks, current_tid, pc, req, tid, request_payload,
          data_phase_payload, container, n_read, n_data, log, result, tids,
          disconnect_pc, disconnect_result, release_calls, fn, arg, ret>>

---------------------------------------------------------------------------
(* Bounds of the model *)

\* command() calls per behaviour
MaxCalls == 2
\* containers read by one command() call before the responder is cut off
MaxReads == 3
\* characters of the strings given to the string codec
MaxStrLen == 2
\* elements of the arrays given to the Data codec
MaxArrLen == 2
MaxFormVals == 3

---------------------------------------------------------------------------
(* Program constants *)

PTP_CONTAINER_INFO_SIZE == 12
CHUNK_SIZE == 1048576
READ_BUF_SIZE == 8192
RESPONSE_OK == 8193
KIND_COMMAND == 1
KIND_DATA == 2
KIND_RESPONSE == 3
KIND_EVENT == 4

Min(a, b) == IF a < b THEN a ELSE b
Max(a, b) == IF a > b THEN a ELSE b

---------------------------------------------------------------------------
(* byteorder: little-endian integers *)

RECURSIVE WriteLE(_, _)
\* the n low bytes of v, least significant first (two's complement for v < 0)
WriteLE(v, n) == IF n = 0 THEN <<>> ELSE <<v % 256>> \o WriteLE(v \div 256, n - 1)

RECURSIVE ReadUnsignedLE(_)
\* read_uN::<LittleEndian>: the unsigned value of the bytes b, b[1] least significant
ReadUnsignedLE(b) == IF b = <<>> THEN 0 ELSE Head(b) + 256 * ReadUnsignedLE(Tail(b))

RECURSIVE ReadSignedLE(_)
\* read_iN::<LittleEndian>: the two's complement value of the bytes b
ReadSignedLE(b) ==
    IF Len(b) = 1 THEN (IF b[1] >= 128 THEN b[1] - 256 ELSE b[1])
    ELSE Head(b) + 256 * ReadSignedLE(Tail(b))

---------------------------------------------------------------------------
(* Results: Rust's Result<T, Error>, plus a panic of the thread *)

NoValue == [none |-> TRUE]
Ok(v) == [t |-> "Ok", msg |-> "", code |-> 0, v |-> v]
Malformed(m) == [t |-> "Malformed", msg |-> m, code |-> 0, v |-> NoValue]
ResponseErr(c) == [t |-> "Response", msg |-> "", code |-> c, v |-> NoValue]
UsbErr == [t |-> "Usb", msg |-> "Timeout", code |-> 0, v |-> NoValue]
Panic(m) == [t |-> "Panic", msg |-> m, code |-> 0, v |-> NoValue]
NoResult == [t |-> "None", msg |-> "", code |-> 0, v |-> NoValue]
\* From<io::Error> for Error: UnexpectedEof becomes Malformed
UnexpectedEof == Malformed("Unexpected end of message")

---------------------------------------------------------------------------
(* Container framing *)

\* PtpContainerType::from_u16 (derive FromPrimitive on the repr(u16) enum)
PtpContainerType_from_u16(n) ==
    CASE n = KIND_COMMAND -> "Command"
      [] n = KIND_DATA -> "Data"
      [] n = KIND_RESPONSE -> "Response"
      [] n = KIND_EVENT -> "Event"
      [] OTHER -> "None"

\* `kind as u16`
PtpContainerType_as_u16(k) ==
    CASE k = "Command" -> KIND_COMMAND
      [] k = "Data" -> KIND_DATA
      [] k = "Response" -> KIND_RESPONSE
      [] k = "Event" -> KIND_EVENT

\* `len as usize - PTP_CONTAINER_INFO_SIZE` with overflow checks off: the
\* difference modulo 2^64, kept as its signed residue
WrappingSubHeader(len) == len - PTP_CONTAINER_INFO_SIZE

\* PtpContainerInfo::parse over the bytes of buf; oc = overflow checks are on
parse(buf, oc) ==
    IF Len(buf) < 4 THEN UnexpectedEof
    ELSE IF Len(buf) < 6 THEN UnexpectedEof
    ELSE LET len == ReadUnsignedLE(SubSeq(buf, 1, 4))
             kind_u16 == ReadUnsignedLE(SubSeq(buf, 5, 6))
             kind == PtpContainerType_from_u16(kind_u16)
         IN IF kind = "None" THEN Malformed("Invalid message type")
            ELSE IF Len(buf) < 8 THEN UnexpectedEof
            ELSE IF Len(buf) < 12 THEN UnexpectedEof
            ELSE IF len < PTP_CONTAINER_INFO_SIZE /\ oc
                 THEN Panic("attempt to subtract with overflow")
            ELSE Ok([payload_len |-> WrappingSubHeader(len),
                     kind |-> kind,
                     code |-> ReadUnsignedLE(SubSeq(buf, 7, 8)),
                     tid |-> ReadUnsignedLE(SubSeq(buf, 9, 12))])

\* belongs_to that takes every container as the transaction's own
belongs_to_any(c, t) == TRUE

\* PtpContainerInfo::belongs_to
belongs_to(c, t) == c.tid = t

---------------------------------------------------------------------------
(* Bulk-out: write_txn_phase *)

\* a first chunk that gives the payload the whole of CHUNK_SIZE
first_chunk_payload_bytes_no_header(plen) == Min(plen, CHUNK_SIZE)

\* min(payload.len(), CHUNK_SIZE - PTP_CONTAINER_INFO_SIZE)
first_chunk_payload_bytes(plen) == Min(plen, CHUNK_SIZE - PTP_CONTAINER_INFO_SIZE)

\* a header whose length field counts the payload only
HeaderBytes_payload_only(kind_u16, code, t, plen) ==
    WriteLE(plen, 4) \o WriteLE(kind_u16, 2) \o WriteLE(code, 2) \o WriteLE(t, 4)

\* the 12 header bytes write_txn_phase puts at the start of its first buffer
HeaderBytes(kind_u16, code, t, plen) ==
    WriteLE(plen + PTP_CONTAINER_INFO_SIZE, 4) \o WriteLE(kind_u16, 2)
        \o WriteLE(code, 2) \o WriteLE(t, 4)

\* one write_bulk call: hdr are bytes built in the temporary buffer, [lo, hi) is
\* the slice of the payload that follows them
OutTransfer(phase, hdr, lo, hi) ==
    [dir |-> "out", phase |-> phase, hdr |-> hdr, lo |-> lo, hi |-> hi, ok |-> TRUE]

RECURSIVE Chunks(_, _, _)
\* payload[lo..].chunks(CHUNK_SIZE): the writes after the first one
Chunks(phase, lo, plen) ==
    IF lo >= plen THEN <<>>
    ELSE <<OutTransfer(phase, <<>>, lo, Min(lo + CHUNK_SIZE, plen))>>
             \o Chunks(phase, lo + CHUNK_SIZE, plen)

\* the write_bulk calls of write_txn_phase(kind, code, tid, payload), in order,
\* when none of them fails
write_txn_phase(kind, code, t, plen) ==
    <<OutTransfer(kind, HeaderBytes(PtpContainerType_as_u16(kind), code, t, plen),
                  0, first_chunk_payload_bytes(plen))>>
        \o Chunks(kind, first_chunk_payload_bytes(plen), plen)

\* a write phase that goes on with the remaining chunks after a failed write_bulk
FailAt_continue(ws, k) ==
    [i \in 1..Len(ws) |-> IF i = k + 1 THEN [ws[i] EXCEPT !.ok = FALSE] ELSE ws[i]]

\* the transfers issued when the (k+1)-th write_bulk fails: the `?` returns at once
FailAt(ws, k) == [i \in 1..(k + 1) |-> IF i = k + 1 THEN [ws[i] EXCEPT !.ok = FALSE] ELSE ws[i]]

RECURSIVE EncodeParams(_)
\* request_payload: each parameter as a little-endian u32
EncodeParams(params) ==
    IF params = <<>> THEN <<>> ELSE WriteLE(Head(params), 4) \o EncodeParams(Tail(params))

---------------------------------------------------------------------------
(* Bulk-in: read_txn_phase *)

EmptyPayload == [tag |-> "-", len |-> 0]
\* a received payload: len bytes of the content the responder labelled tag
MkPayload(tag, len) == IF len = 0 THEN EmptyPayload ELSE [tag |-> tag, len |-> len]

\* one read_bulk call that returned n bytes, or failed
InTransfer(n, ok) ==
    [dir |-> "in", phase |-> "Read", hdr |-> <<>>, lo |-> 0, hi |-> n, ok |-> ok]

\* a < b on usize values kept as signed residues (a negative residue is >= 2^63)
UsizeLt(a, b) ==
    IF (a >= 0) = (b >= 0) THEN a < b ELSE a >= 0

\* capacity of `payload` after Vec::with_capacity(want) and extend_from_slice of
\* have bytes (RawVec grows to max(2 * cap, needed, 8))
CapacityAfterExtend(want, have) ==
    IF have <= want THEN want ELSE Max(Max(2 * want, have), 8)

\* bytes the responder delivers to the second read_bulk, which has room for spare
SecondReadLen(sel, spare, payload_len, have) ==
    LET rest == IF payload_len < 0 THEN spare ELSE Min(spare, Max(payload_len - have, 0))
    IN CASE sel = "zlp" -> 0
         [] sel = "rest" -> rest
         [] sel = "part" -> rest \div 2
         [] sel = "fill" -> spare

\* a test that reads again only while payload bytes are missing
NeedsSecondRead_missing_only(have, payload_len, n) ==
    UsizeLt(have, payload_len)

\* `payload.len() < cinfo.payload_len || buf.len() == unintialized_buf.len()`
NeedsSecondRead(have, payload_len, n) ==
    UsizeLt(have, payload_len) \/ n = READ_BUF_SIZE

Returned(res, reads) == [done |-> TRUE, res |-> res, reads |-> reads]

\* read_txn_phase up to its second read_bulk. d is what the responder does on the
\* first read_bulk: fail, or deliver the first d.n bytes of a container with the
\* header fields d.h and the content d.tag. Either the phase has returned, or it
\* goes on to the second read_bulk.
read_txn_phase_first(d, oc) ==
    IF d.err THEN Returned(UsbErr, <<InTransfer(0, FALSE)>>)
    ELSE
    LET all == HeaderBytes(d.h.kind, d.h.code, d.h.tid, d.h.len - PTP_CONTAINER_INFO_SIZE)
        buf_head == SubSeq(all, 1, Min(d.n, PTP_CONTAINER_INFO_SIZE))
        first == <<InTransfer(d.n, TRUE)>>
        cinfo == parse(buf_head, oc)
    IN IF cinfo.t # "Ok" THEN Returned(cinfo, first)
       ELSE IF cinfo.v.payload_len = 0
            THEN Returned(Ok([info |-> cinfo.v, payload |-> EmptyPayload]), first)
       ELSE
       LET want == cinfo.v.payload_len + 1
           have == d.n - PTP_CONTAINER_INFO_SIZE
       IN IF want < 0 THEN Returned(Panic("capacity overflow"), first)
          ELSE IF ~NeedsSecondRead(have, cinfo.v.payload_len, d.n)
               THEN Returned(Ok([info |-> cinfo.v, payload |-> MkPayload(d.tag, have)]),
                             first)
          ELSE [done |-> FALSE, res |-> cinfo, reads |-> first]

\* read_txn_phase as a whole; d2 is what the responder does on the second
\* read_bulk, when there is one. Yields the Result and the transfers issued.
read_txn_phase(d, d2, oc) ==
    LET s1 == read_txn_phase_first(d, oc)
    IN IF s1.done THEN s1
       ELSE IF d2.err THEN Returned(UsbErr, s1.reads \o <<InTransfer(0, FALSE)>>)
       ELSE LET have == d.n - PTP_CONTAINER_INFO_SIZE
                spare == CapacityAfterExtend(s1.res.v.payload_len + 1, have) - have
                m == SecondReadLen(d2.sel, spare, s1.res.v.payload_len, have)
            IN Returned(Ok([info |-> s1.res.v, payload |-> MkPayload(d.tag, have + m)]),
                        s1.reads \o <<InTransfer(m, TRUE)>>)

---------------------------------------------------------------------------
(* The callers and the responder: inputs of the transaction engine *)

NoData == [some |-> FALSE, len |-> 0]
SomeData(n) == [some |-> TRUE, len |-> n]

\* command() calls as the session facade and its users make them
Requests ==
    { [code |-> 4097, params |-> <<0, 0, 0>>, data |-> NoData],          \* GetDeviceInfo
      [code |-> 4123, params |-> <<305419896, 65536, 2147483647>>,
                      data |-> NoData],                                  \* GetPartialObject
      [code |-> 4108, params |-> <<65537, 0>>, data |-> SomeData(5)],    \* SendObjectInfo
      [code |-> 4109, params |-> <<>>,
                      data |-> SomeData(CHUNK_SIZE - PTP_CONTAINER_INFO_SIZE + 1)] }
                                                                         \* SendObject

\* response codes the responder answers with: Ok, DeviceBusy
HdrCodes == {RESPONSE_OK, 8217}

\* a first read_bulk that delivers n bytes of a container whose header says
\* (len, kind, code, request tid + off) and whose content is labelled tag
FirstRead(n, len, kind, code, off, tag) ==
    [err |-> FALSE, n |-> n, len |-> len, kind |-> kind, code |-> code, off |-> off,
     tag |-> tag]

\* The first read_bulk of a read phase, as the responder may answer it
FirstReads ==
    \* the transfer fails
    { [err |-> TRUE, n |-> 0, len |-> 0, kind |-> 0, code |-> 0, off |-> 0, tag |-> "-"] }
    \* a Response container, of this transaction or of the next
    \cup { FirstRead(12, 12, KIND_RESPONSE, c, off, "-") : c \in HdrCodes, off \in {0, 1} }
    \* a Data container that arrives whole, with one of two contents
    \cup { FirstRead(20, 20, KIND_DATA, RESPONSE_OK, 0, tag) : tag \in {"a", "b"} }
    \* a Data container: empty; split over two transfers; filling the 8 KiB buffer
    \* exactly; larger than the buffer; of another transaction
    \cup { FirstRead(12, 12, KIND_DATA, RESPONSE_OK, 0, "a"),
           FirstRead(16, 20, KIND_DATA, RESPONSE_OK, 0, "a"),
           FirstRead(READ_BUF_SIZE, READ_BUF_SIZE, KIND_DATA, RESPONSE_OK, 0, "a"),
           FirstRead(READ_BUF_SIZE, READ_BUF_SIZE + 12, KIND_DATA, RESPONSE_OK, 0, "a"),
           FirstRead(20, 20, KIND_DATA, RESPONSE_OK, 1, "a") }
    \* a Command or Event container, or one of no known kind
    \cup { FirstRead(12, 12, k, RESPONSE_OK, 0, "-") : k \in {KIND_COMMAND, KIND_EVENT, 9} }
    \* a header whose length field is below the header size
    \cup { FirstRead(12, len, k, RESPONSE_OK, 0, "-") :
             len \in {10, 11}, k \in {KIND_DATA, KIND_RESPONSE} }
    \* a transfer cut short inside the header
    \cup { FirstRead(8, 12, KIND_RESPONSE, RESPONSE_OK, 0, "-") }

\* The second read_bulk of a read phase
SecondReads ==
    { [err |-> TRUE, sel |-> "zlp"] } \cup [err : {FALSE}, sel : {"zlp", "rest", "part", "fill"}]

\* the responder's choices for the second read_bulk, when read_txn_phase issues one
SecondReadsOf(d, oc) ==
    IF read_txn_phase_first(d, oc).done THEN { [err |-> FALSE, sel |-> "zlp"] }
    ELSE SecondReads

\* the first read with its header fields filled in for the request tid t
Transfer(d, t) ==
    [err |-> d.err, n |-> d.n, tag |-> d.tag,
     h |-> [len |-> d.len, kind |-> d.kind, code |-> d.code, tid |-> t + d.off]]

---------------------------------------------------------------------------
(* PtpCamera *)

NoInfo == [payload_len |-> 0, kind |-> "None", code |-> 0, tid |-> 0]
NoContainer == [info |-> NoInfo, payload |-> EmptyPayload, reads |-> <<>>]
NoRequest == [code |-> 0, params |-> <<>>, data |-> NoData]

\* PtpCamera::new: the interface is claimed, current_tid: 0
Init ==
    /\ overflow_checks \in BOOLEAN
    /\ current_tid = 0
    /\ pc = "idle"
    /\ req = NoRequest
    /\ tid = 0
    /\ request_payload = <<>>
    /\ data_phase_payload = EmptyPayload
    /\ container = NoContainer
    /\ n_read = 0
    /\ n_data = 0
    /\ log = <<>>
    /\ result = NoResult
    /\ tids = <<>>
    /\ disconnect_pc = "none"
    /\ disconnect_result = NoResult
    /\ release_calls = 0
    /\ fn = <<>>
    /\ arg = NoValue
    /\ ret = NoResult

\* a counter that is never advanced
NextTid_stuck(t) == t

\* self.current_tid += 1 (a u32; these bounds stay far below its wrap-around)
NextTid(t) == t + 1

\* a command() that never enters the data-out phase
AfterCommandPhase_no_data(r) == "read"

\* where command() goes once the Command container is written:
\* `if let Some(data) = data { write_txn_phase(Data, ...) }`
AfterCommandPhase(r) == IF r.data.some THEN "write_data" ELSE "read"

\* a Response arm that does not look at the response code
ResponseArm_unchecked(c, retained) == Ok(retained)

\* command(), the Response arm of the match on container.kind
ResponseArm(c, retained) ==
    IF c.code # RESPONSE_OK THEN ResponseErr(c.code) ELSE Ok(retained)

\* a Data arm that appends the payload to what was retained before
DataArm_append(retained, payload) ==
    MkPayload(payload.tag, retained.len + payload.len)

\* command(), the Data arm of the match: `data_phase_payload = payload`
DataArm(retained, payload) == payload

\* a match whose Response arm also takes the Event containers
Dispatch_event_ends(kind) ==
    CASE kind = "Data" -> "Data"
      [] kind \in {"Response", "Event"} -> "Response"
      [] OTHER -> "_"

\* command(), `match container.kind`: the arm that is taken
Dispatch(kind) ==
    CASE kind = "Data" -> "Data"
      [] kind = "Response" -> "Response"
      [] OTHER -> "_"

\* command(), entry: take the tid, build the request payload
CommandBegin ==
    /\ pc \in {"idle", "returned"}
    /\ disconnect_pc # "closing"
    /\ Len(tids) < MaxCalls
    /\ \E r \in Requests :
        /\ req' = r
        /\ request_payload' = EncodeParams(r.params)
    /\ tid' = current_tid
    /\ current_tid' = NextTid(current_tid)
    /\ tids' = Append(tids, current_tid)
    /\ pc' = "write_cmd"
    /\ log' = <<>>
    /\ data_phase_payload' = EmptyPayload
    /\ container' = NoContainer
    /\ n_read' = 0
    /\ n_data' = 0
    /\ result' = NoResult
    /\ UNCHANGED <<overflow_checks, disconnect_pc, disconnect_result, release_calls,
                   fn, arg, ret>>

\* command(), command phase: write_txn_phase(Command, code, tid, &request_payload)?
WriteCommand ==
    /\ pc = "write_cmd"
    /\ LET ws == write_txn_phase("Command", req.code, tid, Len(request_payload))
       IN \E k \in 0..Len(ws) :
            IF k = Len(ws)
            THEN /\ log' = log \o ws
                 /\ pc' = AfterCommandPhase(req)
                 /\ result' = result
            ELSE /\ log' = log \o FailAt(ws, k)
                 /\ pc' = "returned"
                 /\ result' = UsbErr
    /\ UNCHANGED <<overflow_checks, current_tid, req, tid, request_payload,
                   data_phase_payload, container, n_read, n_data, tids,
                   disconnect_pc, disconnect_result, release_calls, fn, arg, ret>>

\* command(), data-out phase: write_txn_phase(Data, code, tid, data)?
WriteData ==
    /\ pc = "write_data"
    /\ LET ws == write_txn_phase("Data", req.code, tid, req.data.len)
       IN \E k \in 0..Len(ws) :
            IF k = Len(ws)
            THEN /\ log' = log \o ws
                 /\ pc' = "read"
                 /\ result' = result
            ELSE /\ log' = log \o FailAt(ws, k)
                 /\ pc' = "returned"
                 /\ result' = UsbErr
    /\ UNCHANGED <<overflow_checks, current_tid, req, tid, request_payload,
                   data_phase_payload, container, n_read, n_data, tids,
                   disconnect_pc, disconnect_result, release_calls, fn, arg, ret>>

\* the transfers of a read phase as the log keeps them: their order and outcome
Logged(reads) == [i \in DOMAIN reads |-> InTransfer(0, reads[i].ok)]

\* command(), one turn of the read loop: read_txn_phase, then the dispatch on the
\* container it returned
ReadContainer ==
    /\ pc = "read"
    /\ n_read < MaxReads
    /\ \E d \in FirstReads :
       \E d2 \in SecondReadsOf(Transfer(d, tid), overflow_checks) :
        LET r == read_txn_phase(Transfer(d, tid), d2, overflow_checks)
            c == r.res.v.info
            payload == r.res.v.payload
        IN /\ log' = log \o Logged(r.reads)
           /\ IF r.res.t # "Ok"
              THEN /\ result' = r.res
                   /\ pc' = IF r.res.t = "Panic" THEN "panicked" ELSE "returned"
                   /\ container' = [info |-> NoInfo, payload |-> EmptyPayload,
                                    reads |-> r.reads]
                   /\ UNCHANGED <<n_read, n_data, data_phase_payload>>
              ELSE /\ container' = [info |-> c, payload |-> payload, reads |-> r.reads]
                   /\ n_read' = n_read + 1
                   /\ IF ~belongs_to(c, tid)
                      THEN /\ result' = Malformed("mismatched txnid")
                           /\ pc' = "returned"
                           /\ UNCHANGED <<n_data, data_phase_payload>>
                      ELSE CASE Dispatch(c.kind) = "Data" ->
                                  /\ data_phase_payload' = DataArm(data_phase_payload, payload)
                                  /\ n_data' = n_data + 1
                                  /\ UNCHANGED <<pc, result>>
                             [] Dispatch(c.kind) = "Response" ->
                                  /\ result' = ResponseArm(c, data_phase_payload)
                                  /\ pc' = "returned"
                                  /\ UNCHANGED <<n_data, data_phase_payload>>
                             [] OTHER ->
                                  UNCHANGED <<pc, result, n_data, data_phase_payload>>
    /\ UNCHANGED <<overflow_checks, current_tid, req, tid, request_payload, tids,
                   disconnect_pc, disconnect_result, release_calls, fn, arg, ret>>

\* StandardCommandCode::CloseSession
CLOSE_SESSION == 4099

\* disconnect(), entry: close_session() calls
\* command(StandardCommandCode::CloseSession, &[], None, timeout)
DisconnectBegin ==
    /\ pc \in {"idle", "returned"}
    /\ disconnect_pc # "closing"
    /\ Len(tids) < MaxCalls
    /\ disconnect_pc' = "closing"
    /\ disconnect_result' = NoResult
    /\ req' = [code |-> CLOSE_SESSION, params |-> <<>>, data |-> NoData]
    /\ request_payload' = EncodeParams(<<>>)
    /\ tid' = current_tid
    /\ current_tid' = NextTid(current_tid)
    /\ tids' = Append(tids, current_tid)
    /\ pc' = "write_cmd"
    /\ log' = <<>>
    /\ data_phase_payload' = EmptyPayload
    /\ container' = NoContainer
    /\ n_read' = 0
    /\ n_data' = 0
    /\ result' = NoResult
    /\ UNCHANGED <<overflow_checks, release_calls, fn, arg, ret>>

\* disconnect() once the command() of close_session has returned:
\* `self.close_session(timeout)?; self.handle.release_interface(self.iface)?; Ok(())`
DisconnectReturn ==
    /\ disconnect_pc = "closing"
    /\ pc = "returned"
    /\ disconnect_pc' = "returned"
    /\ IF result.t # "Ok"
       THEN /\ disconnect_result' = result
            /\ UNCHANGED release_calls
       ELSE /\ release_calls' = release_calls + 1
            /\ \E released \in BOOLEAN :
                 disconnect_result' = IF released THEN Ok(NoValue) ELSE UsbErr
    /\ UNCHANGED <<overflow_checks, current_tid, pc, req, tid, request_payload,
                   data_phase_payload, container, n_read, n_data, log, result, tids,
                   fn, arg, ret>>

Next ==
    \/ CommandBegin
    \/ WriteCommand
    \/ WriteData
    \/ ReadContainer
    \/ DisconnectBegin
    \/ DisconnectReturn

Spec == Init /\ [][Next]_vars

---------------------------------------------------------------------------
(* Properties of the transaction engine, checked under Spec *)

\* C1: within one command() call the bulk-out writes of the Command container
\* come first, the bulk-out writes of the Data container (only when `data` is
\* Some) come next, and both precede the first bulk-in read; no bulk-out write
\* follows a bulk-in read.
C1_PhaseOrder ==
    /\ \A i, j \in DOMAIN log :
         /\ (i < j /\ log[i].dir = "in") => log[j].dir = "in"
         /\ (i < j /\ log[i].phase = "Data") => log[j].phase # "Command"
    /\ (\E i \in DOMAIN log : log[i].phase = "Data") => req.data.some
    /\ (\E i \in DOMAIN log : log[i].dir = "in") =>
         /\ \E j \in DOMAIN log : log[j].phase = "Command" /\ log[j].dir = "out"
         /\ req.data.some => \E j \in DOMAIN log : log[j].phase = "Data" /\ log[j].dir = "out"

\* a call with a data-out phase that went through all three phases and returned Ok
C1_Witness ==
    /\ pc = "returned" /\ result.t = "Ok" /\ req.data.some
    /\ \E i, j, k \in DOMAIN log :
         /\ i < j /\ j < k
         /\ log[i].phase = "Command" /\ log[j].phase = "Data" /\ log[k].dir = "in"

\* C2: once the read phase has read a container whose tid differs from the tid
\* sent in the Command container, command() has returned
\* Malformed("mismatched txnid") and reads nothing more.
C2_MismatchedTid ==
    (container.info.kind # "None" /\ container.info.tid # tid) =>
        /\ pc = "returned"
        /\ result = Malformed("mismatched txnid")

\* a Response container of the next transaction answered the request
C2_Witness ==
    /\ container.info.kind = "Response"
    /\ container.info.tid = tid + 1
    /\ result.t = "Malformed"

\* C3: once a Response container with the request's tid is read, command() has
\* returned: Response(code) with that code when the code is not 0x2001, and
\* otherwise Ok with the retained data-in buffer, which is empty when no Data
\* container came before.
C3_ResponseStatus ==
    (container.info.kind = "Response" /\ container.info.tid = tid) =>
        /\ pc = "returned"
        /\ container.info.code # 8193 =>
             result.t = "Response" /\ result.code = container.info.code
        /\ container.info.code = 8193 =>
             /\ result.t = "Ok"
             /\ result.v = data_phase_payload
             /\ n_data = 0 => result.v.len = 0

\* a DeviceBusy response after a data-in phase
C3_Witness ==
    /\ container.info.kind = "Response" /\ container.info.tid = tid
    /\ container.info.code = 8217 /\ result.t = "Response" /\ result.code = 8217
    /\ n_data = 1

\* C4: the counter starts at 0; every command() call takes the current value as
\* its tid and advances the counter by one, whatever the call's outcome; the
\* tids of successive calls are 0, 1, 2, ...
C4_TidSequence ==
    /\ current_tid = Len(tids)
    /\ \A i \in DOMAIN tids : tids[i] = i - 1
    /\ tids # <<>> => tid = tids[Len(tids)]

\* a second call made after the first one failed
C4_Witness ==
    /\ Len(tids) = 2 /\ tid = 1 /\ current_tid = 2
    /\ pc = "returned" /\ result.t \in {"Usb", "Malformed", "Response"}

\* C7: the Command container is one buffer of 12 + 4 * |params| bytes: the
\* length as u32 LE, kind 1, the code as u16 LE, the tid as u32 LE, then the
\* parameters as u32 LE in order; GetDeviceInfo(0, 0, 0) gives 24 bytes that
\* start 18 00 00 00 01 00 01 10.
C7_CommandContainer ==
    log # <<>> =>
        LET w == log[1]
            buf == w.hdr \o SubSeq(request_payload, w.lo + 1, w.hi)
            n == Len(req.params)
            U16(i) == buf[i] + 256 * buf[i + 1]
            U32(i) == buf[i] + 256 * buf[i + 1] + 65536 * buf[i + 2]
                        + 16777216 * buf[i + 3]
        IN /\ w.dir = "out" /\ w.phase = "Command"
           /\ \A i \in DOMAIN log : i > 1 => log[i].phase # "Command"
           /\ Len(buf) = 12 + 4 * n
           /\ U32(1) = 12 + 4 * n
           /\ U16(5) = 1
           /\ U16(7) = req.code
           /\ U32(9) = tid
           /\ \A i \in 1..n : U32(9 + 4 * i) = req.params[i]
           /\ (req.code = 4097 /\ req.params = <<0, 0, 0>>) =>
                /\ Len(buf) = 24
                /\ SubSeq(buf, 1, 8) = <<24, 0, 0, 0, 1, 0, 1, 16>>

\* the Command container of GetPartialObject, three multi-byte parameters
C7_Witness ==
    /\ log # <<>> /\ req.code = 4123 /\ Len(req.params) = 3
    /\ log[1].hdr \o SubSeq(request_payload, log[1].lo + 1, log[1].hi) =
         <<24, 0, 0, 0, 1, 0, 27, 16>> \o WriteLE(tid, 4)
            \o <<120, 86, 52, 18, 0, 0, 1, 0, 255, 255, 255, 127>>

\* C22: nothing is retried inside command(): as soon as a USB transfer of the
\* call fails (command write, data write chunk or bulk-in read), command() has
\* returned that error as Error::Usb and no further transfer of the call follows.
C22_NoRetry ==
    \A i \in DOMAIN log :
        ~log[i].ok =>
            /\ i = Len(log)
            /\ pc = "returned"
            /\ result = UsbErr

\* the first write of a two-chunk Data container timed out
C22_Witness ==
    /\ pc = "returned" /\ result.t = "Usb"
    /\ req.data.len > CHUNK_SIZE - PTP_CONTAINER_INFO_SIZE
    /\ Len(log) = 2
    /\ log[1].phase = "Command" /\ log[1].ok
    /\ log[2].phase = "Data" /\ log[2].hdr # <<>> /\ ~log[2].ok

\* C21: on every exit path of disconnect(), Ok or Err (also when the
\* CloseSession command fails with a USB error, a non-Ok response or a malformed
\* container), release_interface has been called on the claimed interface.
C21_ReleasedOnEveryExit ==
    [][(disconnect_pc = "closing" /\ disconnect_pc' = "returned") =>
          release_calls' = release_calls + 1]_vars

\* what disconnect() does: release_interface is called exactly when close_session
\* returned Ok; otherwise disconnect() returns the error of close_session at once
C21_AsImplemented ==
    [][(disconnect_pc = "closing" /\ disconnect_pc' = "returned") =>
          IF result.t = "Ok"
          THEN release_calls' = release_calls + 1
          ELSE release_calls' = release_calls /\ disconnect_result' = result]_vars

\* C26: when several Data containers with the request's tid arrive before the
\* Response, each one replaces the retained data-in buffer, so a successful
\* command() returns the payload of the last Data container only: earlier
\* payloads are discarded, never concatenated.
C26_LastDataOnly ==
    [][(pc = "read" /\ n_read' = n_read + 1 /\ container'.info.tid = tid) =>
          /\ container'.info.kind = "Data" =>
                data_phase_payload' = container'.payload
          /\ (container'.info.kind = "Response" /\ result'.t = "Ok") =>
                /\ result'.v = data_phase_payload
                /\ data_phase_payload' = data_phase_payload]_vars

\* two Data containers were taken, then an Ok Response: the result is the 8
\* bytes of the second one
C26_Witness ==
    /\ pc = "returned" /\ result.t = "Ok"
    /\ n_data = 2 /\ n_read = 3
    /\ result.v = [tag |-> "b", len |-> 8]

\* C27: in the read phase a container with the request's tid whose kind is
\* Command or Event is ignored: the call does not end, no error is raised, the
\* retained data-in buffer stays as it was, and command() reads the next
\* container.
C27_OtherKindsIgnored ==
    [][(/\ pc = "read" /\ n_read' = n_read + 1
        /\ container'.info.tid = tid
        /\ container'.info.kind \in {"Command", "Event"}) =>
          /\ pc' = "read"
          /\ result' = result /\ result.t = "None"
          /\ data_phase_payload' = data_phase_payload
          /\ n_data' = n_data]_vars

\* an Event container read after a Data container: the call is still reading
\* and the 8 retained bytes are untouched
C27_Witness ==
    /\ pc = "read" /\ result.t = "None"
    /\ container.info.kind = "Event" /\ container.info.tid = tid
    /\ n_read = 2 /\ n_data = 1
    /\ data_phase_payload.len = 8

---------------------------------------------------------------------------
(* Termination of command(): the engine against a responder that answers    *)
(* every request. Every USB transfer returns, so each step of a running     *)
(* command() is taken; the responder sends its Response container, or the   *)
(* transfer fails, at the latest as the MaxReads-th container of a call.    *)

\* one turn of the read loop against the answering responder
ReadContainerAnswered ==
    /\ ReadContainer
    /\ n_read = MaxReads - 1 => container'.info.kind \in {"Response", "None"}

NextLive ==
    \/ CommandBegin
    \/ WriteCommand
    \/ WriteData
    \/ ReadContainerAnswered
    \/ DisconnectBegin
    \/ DisconnectReturn

SpecLive ==
    /\ Init
    /\ [][NextLive]_vars
    /\ WF_vars(WriteCommand)
    /\ WF_vars(WriteData)
    /\ WF_vars(ReadContainerAnswered)

\* the read loop goes round again only after a well-formed container with the
\* request's tid that is not a Response container
LoopsOnlyOnOtherContainers ==
    [][(pc = "read" /\ pc' = "read" /\ n_read' # n_read) =>
          /\ container'.info.kind \in {"Command", "Data", "Event"}
          /\ container'.info.tid = tid]_vars

\* the read loop ends at the first Response container and at the first error
EndsAtResponseOrError ==
    [][(pc = "read" /\ container' # container
          /\ (container'.info.kind \in {"Response", "None"} \/ container'.info.tid # tid)) =>
          pc' # "read"]_vars

\* C30: command() eventually returns: when every USB transfer returns and the
\* responder eventually sends a Response container, a call that was begun
\* returns; its read loop ends at the first Response container or the first
\* error and goes round again only after a well-formed container with the
\* request's tid that is not a Response container.
C30_EventuallyReturns ==
    /\ (pc \in {"write_cmd", "write_data", "read"}) ~> (pc = "returned")
    /\ LoopsOnlyOnOtherContainers
    /\ EndsAtResponseOrError

\* what command() does hold to: every call that was begun ends, by a return or
\* by the panic of the thread on a header whose length field is not accepted
C30_AsImplemented ==
    /\ (pc \in {"write_cmd", "write_data", "read"}) ~> (pc \in {"returned", "panicked"})
    /\ [](pc = "panicked" => result.t = "Panic")
    /\ LoopsOnlyOnOtherContainers
    /\ EndsAtResponseOrError

---------------------------------------------------------------------------
(* Codec harness: a pure function is applied to an input drawn by Init.      *)
(* fn is the sequence of functions applied so far, arg the input, ret the    *)
(* outcome. The engine's variables stay as PtpCamera::new leaves them.       *)

EngineIdle ==
    /\ overflow_checks \in BOOLEAN
    /\ current_tid = 0
    /\ pc = "idle"
    /\ req = NoRequest
    /\ tid = 0
    /\ request_payload = <<>>
    /\ data_phase_payload = EmptyPayload
    /\ container = NoContainer
    /\ n_read = 0
    /\ n_data = 0
    /\ log = <<>>
    /\ result = NoResult
    /\ tids = <<>>
    /\ disconnect_pc = "none"
    /\ disconnect_result = NoResult
    /\ release_calls = 0

---------------------------------------------------------------------------
(* PtpContainerInfo::parse on its own *)

\* headers handed to parse: the fields the sender wrote and the number n of
\* header bytes that arrived
ParseInputs ==
    [len : {0, 4, 11, 12, 13, 24, 8204},
     kind : {0, 1, 2, 3, 4, 5, 257},
     code : {4097, 8193, 65535},
     tid : {0, 5, 6, 305419896},
     n : {0, 3, 5, 7, 11, 12}]

InitParse ==
    /\ EngineIdle
    /\ fn = <<>>
    /\ arg \in ParseInputs
    /\ ret = NoResult

\* parse(&buf[..]) on the first arg.n bytes of the header
ApplyParse ==
    /\ fn = <<>>
    /\ fn' = <<"parse">>
    /\ ret' = parse(SubSeq(HeaderBytes(arg.kind, arg.code, arg.tid,
                                       arg.len - PTP_CONTAINER_INFO_SIZE), 1, arg.n),
                    overflow_checks)
    /\ UNCHANGED <<arg, engine_vars>>

NextParse == ApplyParse

SpecParse == InitParse /\ [][NextParse]_vars

\* C5: parse returns Malformed for every 12-byte header whose length field is
\* below 12, never a container with a wrapped payload_len; for a length of 12
\* or more a container it yields has payload_len = length - 12.
C5_ShortLengthMalformed ==
    (fn = <<"parse">> /\ arg.n = 12) =>
        /\ arg.len < 12 => ret.t = "Malformed"
        /\ (arg.len >= 12 /\ ret.t = "Ok") => ret.v.payload_len = arg.len - 12

\* what parse does hold to: a container it yields for a length of 12 or more
\* has payload_len = length - 12, and a length below 12 with a known kind is
\* never reported as Malformed
C5_AsImplemented ==
    (fn = <<"parse">> /\ arg.n = 12) =>
        /\ (arg.len >= 12 /\ ret.t = "Ok") => ret.v.payload_len = arg.len - 12
        /\ (arg.len < 12 /\ arg.kind \in 1..4) =>
             \/ ret.t = "Panic"
             \/ ret.t = "Ok" /\ ret.v.payload_len < 0

\* C6: parse returns Malformed for every 12-byte header whose kind is not 1, 2,
\* 3 or 4, and for kind 1/2/3/4 yields a Command/Data/Response/Event container
\* with the header's code and tid.
C6_KindDecoding ==
    (fn = <<"parse">> /\ arg.n = 12) =>
        /\ arg.kind \notin {1, 2, 3, 4} => ret.t = "Malformed"
        /\ arg.kind \in {1, 2, 3, 4} =>
             /\ ret.t = "Ok"
             /\ ret.v.kind = CASE arg.kind = 1 -> "Command" [] arg.kind = 2 -> "Data"
                               [] arg.kind = 3 -> "Response" [] arg.kind = 4 -> "Event"
             /\ ret.v.code = arg.code
             /\ ret.v.tid = arg.tid

\* C6 for the headers whose length field is at least 12
C6_KindDecodingWellFormedLength ==
    (fn = <<"parse">> /\ arg.n = 12 /\ arg.len >= 12) =>
        /\ arg.kind \notin {1, 2, 3, 4} => ret.t = "Malformed"
        /\ arg.kind \in {1, 2, 3, 4} =>
             /\ ret.t = "Ok"
             /\ ret.v.kind = CASE arg.kind = 1 -> "Command" [] arg.kind = 2 -> "Data"
                               [] arg.kind = 3 -> "Response" [] arg.kind = 4 -> "Event"
             /\ ret.v.code = arg.code
             /\ ret.v.tid = arg.tid

---------------------------------------------------------------------------
(* Strings. A Rust String is modelled as its sequence of Unicode scalar      *)
(* values; a reader is a buffer and the position of its cursor.              *)

\* char::encode_utf16: one unit, or a surrogate pair for a supplementary character
Utf16Units(cp) ==
    IF cp < 65536 THEN <<cp>>
    ELSE <<55296 + ((cp - 65536) \div 1024), 56320 + ((cp - 65536) % 1024)>>

RECURSIVE encode_utf16(_)
\* str::encode_utf16: the units of every character, in order (the string is
\* split in halves to keep the evaluation shallow)
encode_utf16(str) ==
    IF str = <<>> THEN <<>>
    ELSE IF Len(str) = 1 THEN Utf16Units(str[1])
    ELSE LET h == Len(str) \div 2
         IN encode_utf16(SubSeq(str, 1, h)) \o encode_utf16(SubSeq(str, h + 1, Len(str)))

\* char::len_utf8
Utf8Len(cp) == IF cp < 128 THEN 1 ELSE IF cp < 2048 THEN 2 ELSE IF cp < 65536 THEN 3 ELSE 4

RECURSIVE str_len(_)
\* str::len: the length in UTF-8 bytes
str_len(str) ==
    IF str = <<>> THEN 0
    ELSE IF Len(str) = 1 THEN Utf8Len(str[1])
    ELSE LET h == Len(str) \div 2
         IN str_len(SubSeq(str, 1, h)) + str_len(SubSeq(str, h + 1, Len(str)))

RECURSIVE from_utf16(_)
\* String::from_utf16: the scalar values of the units, or "Err" on a lone surrogate
from_utf16(units) ==
    IF units = <<>> THEN [ok |-> TRUE, str |-> <<>>]
    ELSE IF Head(units) < 55296 \/ Head(units) > 57343
         THEN LET rest == from_utf16(Tail(units))
              IN [ok |-> rest.ok, str |-> <<Head(units)>> \o rest.str]
    ELSE IF Head(units) <= 56319 /\ Len(units) >= 2
              /\ units[2] >= 56320 /\ units[2] <= 57343
         THEN LET rest == from_utf16(Tail(Tail(units)))
              IN [ok |-> rest.ok,
                  str |-> <<65536 + (Head(units) - 55296) * 1024 + (units[2] - 56320)>>
                            \o rest.str]
    ELSE [ok |-> FALSE, str |-> <<>>]

\* the UTF-16 units, each written with write_u16::<LittleEndian>
WriteUnits(units) ==
    [i \in 1..(2 * Len(units)) |-> WriteLE(units[(i + 1) \div 2], 2)[2 - (i % 2)]]

\* `(n as u8) * 2 + 1` in u8 arithmetic: a panic with overflow checks on, the
\* wrapped value otherwise
LengthByte(n, oc) ==
    LET as_u8 == n % 256
    IN IF as_u8 * 2 + 1 > 255
       THEN (IF oc THEN Panic("attempt to multiply with overflow")
                   ELSE Ok([byte |-> (as_u8 * 2 + 1) % 256]))
       ELSE Ok([byte |-> as_u8 * 2 + 1])

\* PtpWrite::write_ptp_str into an empty Vec: the bytes written
write_ptp_str(val, oc) ==
    LET utf16 == encode_utf16(val)
        lb == LengthByte(Len(utf16), oc)
    IN IF lb.t # "Ok" THEN lb
       ELSE Ok([bytes |-> <<lb.v.byte>> \o
                  (IF utf16 # <<>> THEN WriteUnits(utf16) \o <<0, 0>> ELSE <<>>)])

\* Data::encode, the STR arm: the length byte is computed from val.len()
encode_STR(val, oc) ==
    LET lb == LengthByte(str_len(val), oc)
    IN IF lb.t # "Ok" THEN lb
       ELSE Ok([bytes |-> <<lb.v.byte>> \o
                  (IF str_len(val) > 0 THEN WriteUnits(encode_utf16(val)) \o <<0, 0>>
                                      ELSE <<>>)])

\* the outcome of a read: a Result, and where the cursor stands afterwards
Rd(res, pos) == [t |-> res.t, msg |-> res.msg, v |-> res.v, pos |-> pos]

\* the u16 units of buf at pos, pos + 2, ...: n of them
UnitsAt(buf, pos, n) ==
    [i \in 1..n |-> ReadUnsignedLE(SubSeq(buf, pos + 2 * i - 1, pos + 2 * i))]

\* PtpRead::read_ptp_str with the cursor at pos
read_ptp_str(buf, pos) ==
    IF pos + 1 > Len(buf) THEN Rd(UnexpectedEof, pos)
    ELSE LET len == buf[pos + 1]
         IN IF len > 0
            THEN LET n == len - 1
                 IN IF pos + 1 + 2 * n > Len(buf) THEN Rd(UnexpectedEof, Len(buf))
                    ELSE IF pos + 1 + 2 * n + 2 > Len(buf) THEN Rd(UnexpectedEof, Len(buf))
                    ELSE LET data == UnitsAt(buf, pos + 1, n)
                             dec == from_utf16(data)
                         IN IF dec.ok THEN Rd(Ok([str |-> dec.str]), pos + 1 + 2 * n + 2)
                            ELSE Rd(Malformed("Invalid UTF16 data"), pos + 1 + 2 * n + 2)
            ELSE Rd(Ok([str |-> <<>>]), pos + 1)

\* characters of the test strings: A B C, e-acute, the euro sign, U+1F600
StrChars == {65, 66, 67, 233, 8364, 128512}

RECURSIVE SeqsUpTo(_, _)
\* the sequences over S of length at most n
SeqsUpTo(S, n) ==
    IF n = 0 THEN {<<>>}
    ELSE LET shorter == SeqsUpTo(S, n - 1)
         IN shorter \cup {Append(q, x) : q \in shorter, x \in S}

\* the strings given to the codec: all short ones, "ABC", and runs of 127 and
\* 128 letters (the longest whose length byte fits a u8, and the next one)
StrInputs ==
    SeqsUpTo(StrChars, MaxStrLen)
        \cup {<<65, 66, 67>>, [i \in 1..127 |-> 65], [i \in 1..128 |-> 65]}

InitStr ==
    /\ EngineIdle
    /\ fn = <<>>
    /\ arg \in [s : StrInputs]
    /\ ret = NoResult

\* val is written with write_ptp_str
WritePtpStr ==
    /\ fn = <<>>
    /\ fn' = <<"write_ptp_str">>
    /\ ret' = [enc |-> write_ptp_str(arg.s, overflow_checks), dec |-> NoResult]
    /\ UNCHANGED <<arg, engine_vars>>

\* Data::STR(val).encode()
EncodeSTR ==
    /\ fn = <<>>
    /\ fn' = <<"Data::STR.encode">>
    /\ ret' = [enc |-> encode_STR(arg.s, overflow_checks), dec |-> NoResult]
    /\ UNCHANGED <<arg, engine_vars>>

\* the encoded bytes are read back with read_ptp_str
ReadPtpStr ==
    /\ Len(fn) = 1
    /\ ret.enc.t = "Ok"
    /\ fn' = Append(fn, "read_ptp_str")
    /\ ret' = [ret EXCEPT !.dec = read_ptp_str(ret.enc.v.bytes, 0)]
    /\ UNCHANGED <<arg, engine_vars>>

NextStr == WritePtpStr \/ EncodeSTR \/ ReadPtpStr

SpecStr == InitStr /\ [][NextStr]_vars

\* C8: for every string of at most 254 UTF-16 units the encoder succeeds and
\* read_ptp_str over the encoded bytes returns the string and consumes exactly
\* those bytes; "ABC" encodes to 07 41 00 42 00 43 00 00 00.
C8_StrRoundTrip ==
    (Len(fn) >= 1 /\ Len(encode_utf16(arg.s)) <= 254) =>
        /\ ret.enc.t = "Ok"
        /\ arg.s = <<65, 66, 67>> =>
             ret.enc.v.bytes = <<7, 65, 0, 66, 0, 67, 0, 0, 0>>
        /\ Len(fn) = 2 =>
             /\ ret.dec.t = "Ok"
             /\ ret.dec.v.str = arg.s
             /\ ret.dec.pos = Len(ret.enc.v.bytes)

\* what the two codecs do hold to: "ABC" encodes to the nine bytes of the
\* scenario, and no encoded string of 1 to 127 units is read back (the reader
\* takes the length byte 2n+1 for a count of 2n units and runs off the end)
C8_AsImplemented ==
    /\ (Len(fn) >= 1 /\ arg.s = <<65, 66, 67>>) =>
         ret.enc.t = "Ok" /\ ret.enc.v.bytes = <<7, 65, 0, 66, 0, 67, 0, 0, 0>>
    /\ (Len(fn) = 2 /\ arg.s # <<>> /\ str_len(arg.s) <= 127) =>
         ret.dec.t = "Malformed"

\* C9: both encoders turn the empty string into the single byte 0x00.
C9_EmptyStr ==
    (Len(fn) >= 1 /\ arg.s = <<>>) =>
        ret.enc.t = "Ok" /\ ret.enc.v.bytes = <<0>>

\* what the encoders emit for the empty string: the single byte 0x01
C9_AsImplemented ==
    (Len(fn) >= 1 /\ arg.s = <<>>) =>
        ret.enc.t = "Ok" /\ ret.enc.v.bytes = <<1>>

\* C29: the two string encoders agree: for every string, also one with
\* non-ASCII characters (whose UTF-8 byte length differs from its UTF-16 unit
\* count), Data::STR(s).encode() gives the same outcome, byte for byte, as
\* write_ptp_str(s).
C29_EncodersAgree ==
    /\ (Len(fn) >= 1 /\ fn[1] = "Data::STR.encode") =>
         ret.enc = write_ptp_str(arg.s, overflow_checks)
    /\ (Len(fn) >= 1 /\ fn[1] = "write_ptp_str") =>
         ret.enc = encode_STR(arg.s, overflow_checks)

\* what the encoders do hold to: they agree on ASCII strings; on a short string
\* with a non-ASCII character they write the same units and terminator behind
\* different length bytes (UTF-8 bytes against UTF-16 units)
C29_AsImplemented ==
    (Len(fn) >= 1 /\ fn[1] = "Data::STR.encode") =>
        LET other == write_ptp_str(arg.s, overflow_checks)
        IN IF \A i \in DOMAIN arg.s : arg.s[i] < 128
           THEN ret.enc = other
           ELSE Len(arg.s) <= 2 =>
                  /\ ret.enc.t = "Ok" /\ other.t = "Ok"
                  /\ Tail(ret.enc.v.bytes) = Tail(other.v.bytes)
                  /\ Head(ret.enc.v.bytes) > Head(other.v.bytes)

---------------------------------------------------------------------------
(* Data: a value is a variant name and its content. Integers are kept     *)
(* inside the checker's integer range; a 128-bit value is the pair of u64 *)
(* the enum holds; an array is a sequence; a string is as above.          *)

Data(variant, v) == [variant |-> variant, v |-> v]
UNDEF == Data("UNDEF", NoValue)

\* the integer variants in the order of their type tags 0x0001 .. 0x000A
IntVariants ==
    <<"INT8", "UINT8", "INT16", "UINT16", "INT32", "UINT32", "INT64", "UINT64",
      "INT128", "UINT128">>

\* the array variants in the order of their type tags 0x4001 .. 0x400A
ArrayVariants ==
    <<"AINT8", "AUINT8", "AINT16", "AUINT16", "AINT32", "AUINT32", "AINT64",
      "AUINT64", "AINT128", "AUINT128">>

IsArray(variant) == \E i \in 1..Len(ArrayVariants) : ArrayVariants[i] = variant

\* the variant of an array's items
ItemVariant(variant) ==
    IntVariants[CHOOSE i \in 1..Len(ArrayVariants) : ArrayVariants[i] = variant]

Is128(variant) == variant \in {"INT128", "UINT128"}

IsSigned(variant) == variant \in {"INT8", "INT16", "INT32", "INT64"}

\* bytes of an integer of the variant
Width(variant) ==
    CASE variant \in {"INT8", "UINT8"} -> 1
      [] variant \in {"INT16", "UINT16"} -> 2
      [] variant \in {"INT32", "UINT32"} -> 4
      [] variant \in {"INT64", "UINT64"} -> 8
      [] Is128(variant) -> 16

\* Data::encode, one integer: write_iN / write_uN little-endian; for a 128-bit
\* value the pattern (hi, lo) binds the pair, and lo is written before hi
encode_int(variant, x) ==
    IF Is128(variant)
    THEN LET hi == x[1]
             lo == x[2]
         IN WriteLE(lo, 8) \o WriteLE(hi, 8)
    ELSE WriteLE(x, Width(variant))

RECURSIVE encode_items(_, _)
\* Data::encode, the loop over the items of an array
encode_items(variant, val) ==
    IF val = <<>> THEN <<>>
    ELSE encode_int(variant, Head(val)) \o encode_items(variant, Tail(val))

\* Data::encode: the bytes of a value (UNDEF writes nothing)
Data_encode(d, oc) ==
    IF d.variant = "UNDEF" THEN Ok([bytes |-> <<>>])
    ELSE IF d.variant = "STR" THEN encode_STR(d.v, oc)
    ELSE IF IsArray(d.variant)
         THEN Ok([bytes |-> WriteLE(Len(d.v), 4) \o encode_items(ItemVariant(d.variant), d.v)])
    ELSE Ok([bytes |-> encode_int(d.variant, d.v)])

\* PtpRead::read_ptp_u128: the first word read is named hi, the second lo, and
\* the pair (lo, hi) is returned
read_ptp_u128(buf, pos) ==
    IF pos + 8 > Len(buf) \/ pos + 16 > Len(buf) THEN Rd(UnexpectedEof, Len(buf))
    ELSE LET hi == ReadUnsignedLE(SubSeq(buf, pos + 1, pos + 8))
             lo == ReadUnsignedLE(SubSeq(buf, pos + 9, pos + 16))
         IN Rd(Ok([x |-> <<lo, hi>>]), pos + 16)

\* PtpRead::read_ptp_i128: as read_ptp_u128
read_ptp_i128(buf, pos) ==
    IF pos + 8 > Len(buf) \/ pos + 16 > Len(buf) THEN Rd(UnexpectedEof, Len(buf))
    ELSE LET hi == ReadUnsignedLE(SubSeq(buf, pos + 1, pos + 8))
             lo == ReadUnsignedLE(SubSeq(buf, pos + 9, pos + 16))
         IN Rd(Ok([x |-> <<lo, hi>>]), pos + 16)

\* PtpRead::read_ptp_i8 .. read_ptp_u64 and the two 128-bit readers, by variant
read_ptp_int(variant, buf, pos) ==
    IF variant = "INT128" THEN read_ptp_i128(buf, pos)
    ELSE IF variant = "UINT128" THEN read_ptp_u128(buf, pos)
    ELSE IF pos + Width(variant) > Len(buf) THEN Rd(UnexpectedEof, Len(buf))
    ELSE LET b == SubSeq(buf, pos + 1, pos + Width(variant))
         IN Rd(Ok([x |-> IF IsSigned(variant) THEN ReadSignedLE(b) ELSE ReadUnsignedLE(b)]),
               pos + Width(variant))

RECURSIVE ReadItems(_, _, _, _)
\* (0..len).map(|_| func(self)).collect(): n items, or the first error
ReadItems(variant, buf, pos, n) ==
    IF n = 0 THEN Rd(Ok([items |-> <<>>]), pos)
    ELSE LET r == read_ptp_int(variant, buf, pos)
         IN IF r.t # "Ok" THEN r
            ELSE LET rest == ReadItems(variant, buf, r.pos, n - 1)
                 IN IF rest.t # "Ok" THEN rest
                    ELSE Rd(Ok([items |-> <<r.v.x>> \o rest.v.items]), rest.pos)

\* PtpRead::read_ptp_vec: a u32 count, then that many items
read_ptp_vec(variant, buf, pos) ==
    IF pos + 4 > Len(buf) THEN Rd(UnexpectedEof, Len(buf))
    ELSE ReadItems(variant, buf, pos + 4, ReadUnsignedLE(SubSeq(buf, pos + 1, pos + 4)))

\* Data::read_type, the match on kind: the variant a type tag selects
VariantOfTag(kind) ==
    IF kind \in 1..10 THEN IntVariants[kind]
    ELSE IF kind \in 16385..16394 THEN ArrayVariants[kind - 16384]
    ELSE IF kind = 65535 THEN "STR"
    ELSE "UNDEF"

\* Data::read_type with the reader at pos
read_type(kind, buf, pos) ==
    LET variant == VariantOfTag(kind)
    IN IF variant = "UNDEF" THEN Rd(Ok([data |-> UNDEF]), pos)
       ELSE IF variant = "STR"
            THEN LET r == read_ptp_str(buf, pos)
                 IN IF r.t # "Ok" THEN r
                    ELSE Rd(Ok([data |-> Data("STR", r.v.str)]), r.pos)
       ELSE IF IsArray(variant)
            THEN LET r == read_ptp_vec(ItemVariant(variant), buf, pos)
                 IN IF r.t # "Ok" THEN r
                    ELSE Rd(Ok([data |-> Data(variant, r.v.items)]), r.pos)
       ELSE LET r == read_ptp_int(variant, buf, pos)
            IN IF r.t # "Ok" THEN r
               ELSE Rd(Ok([data |-> Data(variant, r.v.x)]), r.pos)

\* the type tag of a variant: the arm of read_type's match that builds it
\* (0x0000, matched by the wildcard arm, for UNDEF)
TypeTag(variant) ==
    IF variant = "UNDEF" THEN 0
    ELSE CHOOSE kind \in (1..10) \cup (16385..16394) \cup {65535} :
             VariantOfTag(kind) = variant

\* integers given to the codec, per variant: the ends of the range where the
\* checker can hold them, and values whose bytes all differ
IntInputs(variant) ==
    CASE variant = "INT8" -> {-128, -1, 0, 1, 127}
      [] variant = "UINT8" -> {0, 1, 128, 255}
      [] variant = "INT16" -> {-32768, -1, 0, 258, 32767}
      [] variant = "UINT16" -> {0, 258, 32768, 65535}
      [] variant = "INT32" -> {-2147483647 - 1, -1, 0, 16909060, 2147483647}
      [] variant = "UINT32" -> {0, 16909060, 2147483647}
      [] variant = "INT64" -> {-2147483647 - 1, -1, 0, 16909060, 2147483647}
      [] variant = "UINT64" -> {0, 16909060, 2147483647}
      [] Is128(variant) -> {0, 1, 16909060} \X {0, 2, 84281096}

\* items of the arrays given to the codec
ItemInputs(variant) ==
    IF Is128(variant) THEN {<<0, 0>>, <<1, 2>>, <<16909060, 84281096>>}
    ELSE IF IsSigned(variant) THEN {-1, 0, 127}
    ELSE {0, 1, 255}

\* the contents given to the codec, per variant
DataInputs(variant) ==
    IF variant = "UNDEF" THEN {NoValue}
    ELSE IF variant = "STR" THEN StrInputs
    ELSE IF IsArray(variant) THEN SeqsUpTo(ItemInputs(ItemVariant(variant)), MaxArrLen)
    ELSE IntInputs(variant)

DataVariants ==
    {"UNDEF", "STR"} \cup {IntVariants[i] : i \in 1..Len(IntVariants)}
                     \cup {ArrayVariants[i] : i \in 1..Len(ArrayVariants)}

InitData ==
    /\ EngineIdle
    /\ fn = <<>>
    /\ \E variant \in DataVariants :
         arg \in {[d |-> Data(variant, v)] : v \in DataInputs(variant)}
    /\ ret = NoResult

\* v.encode()
DataEncode ==
    /\ fn = <<>>
    /\ fn' = <<"Data::encode">>
    /\ ret' = [enc |-> Data_encode(arg.d, overflow_checks), dec |-> NoResult]
    /\ UNCHANGED <<arg, engine_vars>>

\* Data::read_type(tag(v), reader over the encoded bytes)
DataReadType ==
    /\ Len(fn) = 1
    /\ ret.enc.t = "Ok"
    /\ fn' = Append(fn, "Data::read_type")
    /\ ret' = [ret EXCEPT !.dec = read_type(TypeTag(arg.d.variant), ret.enc.v.bytes, 0)]
    /\ UNCHANGED <<arg, engine_vars>>

NextData == DataEncode \/ DataReadType

SpecData == InitData /\ [][NextData]_vars

\* the value read back is the value encoded, and the reader stands at the end
RoundTrips ==
    /\ ret.dec.t = "Ok"
    /\ ret.dec.v.data.variant = arg.d.variant
    /\ ret.dec.v.data.v = arg.d.v
    /\ ret.dec.pos = Len(ret.enc.v.bytes)

\* C10: for every Data value v other than UNDEF, integer, array (empty ones
\* included) or STR, v.encode() succeeds and Data::read_type(tag(v), ...) over
\* the encoded bytes returns a value equal to v with the reader at their end.
C10_DataRoundTrip ==
    (Len(fn) >= 1 /\ arg.d.variant # "UNDEF") =>
        /\ ret.enc.t = "Ok"
        /\ Len(fn) = 2 => RoundTrips

\* what the codec does hold to: every integer and every array is read back as
\* it was encoded, and no string is
C10_AsImplemented ==
    /\ (Len(fn) = 2 /\ arg.d.variant \notin {"UNDEF", "STR"}) => RoundTrips
    /\ (Len(fn) = 2 /\ arg.d.variant = "STR") => ~RoundTrips


---------------------------------------------------------------------------
(* The 128-bit primitives and the 128-bit arms of Data::encode on their own *)

\* PtpWrite::write_ptp_u128 into an empty Vec: the pattern (lo, hi) binds the
\* pair, lo is written before hi
write_ptp_u128(val) ==
    LET lo == val[1]
        hi == val[2]
    IN WriteLE(lo, 8) \o WriteLE(hi, 8)

\* PtpWrite::write_ptp_i128: as write_ptp_u128
write_ptp_i128(val) ==
    LET lo == val[1]
        hi == val[2]
    IN WriteLE(lo, 8) \o WriteLE(hi, 8)

\* u64 words of the pairs given to the 128-bit codec
Words128 == {0, 1, 16909060, 84281096, 2147483647}

\* the pairs given to the 128-bit codec: p on its own, and <<p, q>> as an array
Inputs128 == [p : Words128 \X Words128, q : {<<0, 0>>, <<3, 4>>}]

Init128 ==
    /\ EngineIdle
    /\ fn = <<>>
    /\ arg \in Inputs128
    /\ ret = NoResult

\* write_ptp_u128(p)
WritePtpU128 ==
    /\ fn = <<>>
    /\ fn' = <<"write_ptp_u128">>
    /\ ret' = [enc |-> Ok([bytes |-> write_ptp_u128(arg.p)]), dec |-> NoResult]
    /\ UNCHANGED <<arg, engine_vars>>

\* write_ptp_i128(p)
WritePtpI128 ==
    /\ fn = <<>>
    /\ fn' = <<"write_ptp_i128">>
    /\ ret' = [enc |-> Ok([bytes |-> write_ptp_i128(arg.p)]), dec |-> NoResult]
    /\ UNCHANGED <<arg, engine_vars>>

\* Data::INT128(p).encode() and Data::UINT128(p).encode()
Encode128 ==
    /\ fn = <<>>
    /\ \E variant \in {"INT128", "UINT128"} :
         /\ fn' = <<variant>>
         /\ ret' = [enc |-> Data_encode(Data(variant, arg.p), overflow_checks),
                    dec |-> NoResult]
    /\ UNCHANGED <<arg, engine_vars>>

\* Data::AINT128(vec![p, q]).encode() and Data::AUINT128(vec![p, q]).encode()
EncodeArray128 ==
    /\ fn = <<>>
    /\ \E variant \in {"AINT128", "AUINT128"} :
         /\ fn' = <<variant>>
         /\ ret' = [enc |-> Data_encode(Data(variant, <<arg.p, arg.q>>), overflow_checks),
                    dec |-> NoResult]
    /\ UNCHANGED <<arg, engine_vars>>

\* the 16 bytes written for p are read with read_ptp_u128
ReadPtpU128 ==
    /\ Len(fn) = 1
    /\ ~IsArray(fn[1])
    /\ fn' = Append(fn, "read_ptp_u128")
    /\ ret' = [ret EXCEPT !.dec = read_ptp_u128(ret.enc.v.bytes, 0)]
    /\ UNCHANGED <<arg, engine_vars>>

\* the 16 bytes written for p are read with read_ptp_i128
ReadPtpI128 ==
    /\ Len(fn) = 1
    /\ ~IsArray(fn[1])
    /\ fn' = Append(fn, "read_ptp_i128")
    /\ ret' = [ret EXCEPT !.dec = read_ptp_i128(ret.enc.v.bytes, 0)]
    /\ UNCHANGED <<arg, engine_vars>>

Next128 ==
    \/ WritePtpU128 \/ WritePtpI128 \/ Encode128 \/ EncodeArray128
    \/ ReadPtpU128 \/ ReadPtpI128

Spec128 == Init128 /\ [][Next128]_vars

\* the wire form the specification gives the pair (lo, hi): lo's bytes, then hi's
LoFirst(pair) == WriteLE(pair[1], 8) \o WriteLE(pair[2], 8)

\* C11: every encoder of the pair (lo, hi) -- write_ptp_u128, write_ptp_i128,
\* Data::encode of INT128/UINT128 and of their arrays (after the u32 count) --
\* emits the 8 bytes of lo and then those of hi, and read_ptp_u128/i128 return
\* the first 8 wire bytes as the first component and the next 8 as the second.
C11_LowWordFirst ==
    /\ (Len(fn) >= 1 /\ ~IsArray(fn[1])) => ret.enc.v.bytes = LoFirst(arg.p)
    /\ (Len(fn) >= 1 /\ IsArray(fn[1])) =>
         ret.enc.v.bytes = WriteLE(2, 4) \o LoFirst(arg.p) \o LoFirst(arg.q)
    /\ Len(fn) = 2 =>
         /\ ret.dec.t = "Ok"
         /\ ret.dec.v.x = <<ReadUnsignedLE(SubSeq(ret.enc.v.bytes, 1, 8)),
                            ReadUnsignedLE(SubSeq(ret.enc.v.bytes, 9, 16))>>

\* what the code does hold to: write_ptp_u128/i128 put the first component
\* first on the wire; Data::encode puts the second component first; the
\* readers return the first 8 wire bytes as the second component
C11_AsImplemented ==
    /\ (Len(fn) >= 1 /\ fn[1] \in {"write_ptp_u128", "write_ptp_i128"}) =>
         ret.enc.v.bytes = LoFirst(arg.p)
    /\ (Len(fn) >= 1 /\ fn[1] \in {"INT128", "UINT128"}) =>
         ret.enc.v.bytes = LoFirst(<<arg.p[2], arg.p[1]>>)
    /\ (Len(fn) >= 1 /\ IsArray(fn[1])) =>
         ret.enc.v.bytes = WriteLE(2, 4) \o LoFirst(<<arg.p[2], arg.p[1]>>)
                                         \o LoFirst(<<arg.q[2], arg.q[1]>>)
    /\ Len(fn) = 2 =>
         /\ ret.dec.t = "Ok"
         /\ ret.dec.v.x = <<ReadUnsignedLE(SubSeq(ret.enc.v.bytes, 9, 16)),
                            ReadUnsignedLE(SubSeq(ret.enc.v.bytes, 1, 8))>>

\* C28: the 128-bit primitives are inverse to each other: the 16 bytes written
\* for the pair (a, b) by write_ptp_u128 (write_ptp_i128) are read back by
\* read_ptp_u128 and read_ptp_i128 as (a, b), each component in its position.
C28_PrimitivesInverse ==
    (Len(fn) = 2 /\ fn[1] \in {"write_ptp_u128", "write_ptp_i128"}) =>
        /\ ret.dec.t = "Ok"
        /\ ret.dec.v.x = arg.p
        /\ ret.dec.pos = 16

\* what the primitives do: the pair comes back with its components exchanged
C28_AsImplemented ==
    (Len(fn) = 2 /\ fn[1] \in {"write_ptp_u128", "write_ptp_i128"}) =>
        /\ ret.dec.t = "Ok"
        /\ ret.dec.v.x = <<arg.p[2], arg.p[1]>>
        /\ ret.dec.pos = 16

---------------------------------------------------------------------------
(* Code domains. A code is its class and, for Standard, the name of the     *)
(* constant, otherwise the u16 it holds. A standard enum is the function    *)
(* from its discriminants to the names of its constants.                    *)

Enum(base, names) == [n \in base..(base + Len(names) - 1) |-> names[n - base + 1]]

StandardCommandCode ==
    Enum(4096,
         <<"Undefined", "GetDeviceInfo", "OpenSession", "CloseSession", "GetStorageIDs",
           "GetStorageInfo", "GetNumObjects", "GetObjectHandles", "GetObjectInfo",
           "GetObject", "GetThumb", "DeleteObject", "SendObjectInfo", "SendObject",
           "InitiateCapture", "FormatStore", "ResetDevice", "SelfTest",
           "SetObjectProtection", "PowerDown", "GetDevicePropDesc", "GetDevicePropValue",
           "SetDevicePropValue", "ResetDevicePropValue", "TerminateOpenCapture",
           "MoveObject", "CopyObject", "GetPartialObject", "InitiateOpenCapture">>)

StandardResponseCode ==
    Enum(8192,
         <<"Undefined", "Ok", "GeneralError", "SessionNotOpen", "InvalidTransactionId",
           "OperationNotSupported", "ParameterNotSupported", "IncompleteTransfer",
           "InvalidStorageId", "InvalidObjectHandle", "DevicePropNotSupported",
           "InvalidObjectFormatCode", "StoreFull", "ObjectWriteProtected",
           "StoreReadOnly", "AccessDenied", "NoThumbnailPresent", "SelfTestFailed",
           "PartialDeletion", "StoreNotAvailable", "SpecificationByFormatUnsupported",
           "NoValidObjectInfo", "InvalidCodeFormat", "UnknownVendorCode",
           "CaptureAlreadyTerminated", "DeviceBusy", "InvalidParentObject",
           "InvalidDevicePropFormat", "InvalidDevicePropValue", "InvalidParameter",
           "SessionAlreadyOpen", "TransactionCancelled",
           "SpecificationOfDestinationUnsupported">>)

StandardEventCode ==
    Enum(16384,
         <<"Undefined", "CancelTransaction", "ObjectAdded", "ObjectRemoved", "StoreAdded",
           "StoreRemoved", "DevicePropChanged", "ObjectInfoChanged", "StoreFull",
           "DeviceReset", "StorageInfoChanged", "CaptureComplete", "UnreportedStatus">>)

StandardObjectFormatCode ==
    Enum(12288,
         <<"UndefinedNonImage", "Association", "Script", "Executable", "Text", "Html",
           "Dpof", "Aiff", "Wav", "Mp3", "Avi", "Mpeg", "Asf">>)
    @@ Enum(14336,
            <<"UndefinedImage", "ExifJpeg", "TiffEp", "FlashPix", "Bmp", "Ciff",
              "UndefinedReserved", "Gif", "Jfif", "Pcd", "Pict", "Png",
              "UndefinedReserved2", "Tiff", "TiffIt", "Jp2", "Jpx">>)

StandardAssociationCode ==
    Enum(0, <<"Undefined", "GenericFolder", "Album", "TimeSequence",
              "PanoramicHorizontal", "PanoramicVertical", "Panoramic2D", "AncillaryData">>)

StandardAccessType == Enum(0, <<"ReadWrite", "ReadOnlyNoDelete", "ReadOnly">>)

StandardFilesystemType ==
    Enum(0, <<"Undefined", "GenericFlat", "GenericHierarchical", "DCF">>)

StandardStorageType ==
    Enum(0, <<"Undefined", "FixedRom", "RemovableRom", "FixedRam", "RemovableRam">>)

\* Option<code>: the variants of the code enums, and None
NoCode == [class |-> "None", std |-> "", n |-> 0]
Standard(name) == [class |-> "Standard", std |-> name, n |-> 0]
Vendor(n) == [class |-> "Vendor", std |-> "", n |-> n]
Reserved(n) == [class |-> "Reserved", std |-> "", n |-> n]
Other(n) == [class |-> "Other", std |-> "", n |-> n]
ImageOnly == [class |-> "ImageOnly", std |-> "", n |-> 0]

\* Option<u64>: a u64 is kept as its low 16 bits and the bits above them
NoU64 == [some |-> FALSE, lo |-> 0, hi |-> 0]
SomeU64(lo, hi) == [some |-> TRUE, lo |-> lo, hi |-> hi]

\* Option<u16>
NoU16 == [some |-> FALSE, v |-> 0]
SomeU16(v) == [some |-> TRUE, v |-> v]

\* derive(FromPrimitive) on a standard enum: the constant whose discriminant is n
Derived_from_u16(enum, n) == IF n \in DOMAIN enum THEN Standard(enum[n]) ELSE NoCode

\* derive(ToPrimitive) on a standard enum: the discriminant of the constant
Derived_to_u64(enum, name) == SomeU64(CHOOSE n \in DOMAIN enum : enum[n] = name, 0)

\* a mask that keeps the least significant nibble
Msn_low_nibble(n) == n % 16

\* (n & MSN_MASK) >> 12
Msn(n) == (n \div 4096) % 16

\* (n >> 15) & 1
Bit15(n) == (n \div 32768) % 2


\* CommandCode::from_u64
CommandCode_from_u64(n) ==
    LET code == Derived_from_u16(StandardCommandCode, n)
    IN IF code # NoCode THEN code ELSE Other(n)

\* ResponseCode::from_u64
ResponseCode_from_u64(n) ==
    LET code == Derived_from_u16(StandardResponseCode, n)
    IN IF code # NoCode THEN code ELSE Other(n)

\* a classifier that looks at the top nibble before the standard constants
EventCode_from_u64_nibble_first(n) ==
    IF Msn(n) = 12 THEN Vendor(n)
    ELSE IF Msn(n) = 4 THEN Reserved(n)
    ELSE Derived_from_u16(StandardEventCode, n)

\* EventCode::from_u64: RESERVED_MSN = 0b0100, VENDOR_MSN = 0b1100
EventCode_from_u64(n) ==
    LET ec == Derived_from_u16(StandardEventCode, n)
    IN IF ec # NoCode THEN ec
       ELSE IF Msn(n) = 12 THEN Vendor(n)
       ELSE IF Msn(n) = 4 THEN Reserved(n)
       ELSE NoCode

\* ObjectFormatCode::from_u64: RESERVED_MSN = 0b0011, VENDOR_MSN = 0b1011
ObjectFormatCode_from_u64(n) ==
    LET ofc == Derived_from_u16(StandardObjectFormatCode, n)
    IN IF ofc # NoCode THEN ofc
       ELSE IF n = 65535 THEN ImageOnly
       ELSE IF Msn(n) = 11 THEN Vendor(n)
       ELSE IF Msn(n) = 3 THEN Reserved(n)
       ELSE NoCode

\* AssociationCode::from_u64 (its MSN constants are not used)
AssociationCode_from_u64(n) ==
    LET ofc == Derived_from_u16(StandardAssociationCode, n)
    IN IF ofc # NoCode THEN ofc
       ELSE IF Bit15(n) = 1 THEN Vendor(n)
       ELSE Reserved(n)

\* AccessType::from_u64
AccessType_from_u64(n) ==
    LET ofc == Derived_from_u16(StandardAccessType, n)
    IN IF ofc # NoCode THEN ofc ELSE Reserved(n)

\* a classifier without the vendor test, as those of StorageType and AccessType
FilesystemType_from_u64_no_vendor(n) ==
    LET ofc == Derived_from_u16(StandardFilesystemType, n)
    IN IF ofc # NoCode THEN ofc ELSE Reserved(n)

\* FilesystemType::from_u64
FilesystemType_from_u64(n) ==
    LET ofc == Derived_from_u16(StandardFilesystemType, n)
    IN IF ofc # NoCode THEN ofc
       ELSE IF Bit15(n) = 1 THEN Vendor(n)
       ELSE Reserved(n)

\* StorageType::from_u64
StorageType_from_u64(n) ==
    LET ofc == Derived_from_u16(StandardStorageType, n)
    IN IF ofc # NoCode THEN ofc ELSE Reserved(n)

CodeDomains ==
    {"CommandCode", "ResponseCode", "EventCode", "ObjectFormatCode", "AssociationCode",
     "StorageType", "FilesystemType", "AccessType"}

\* the standard enum of a code domain
StandardOf(domain) ==
    CASE domain = "CommandCode" -> StandardCommandCode
      [] domain = "ResponseCode" -> StandardResponseCode
      [] domain = "EventCode" -> StandardEventCode
      [] domain = "ObjectFormatCode" -> StandardObjectFormatCode
      [] domain = "AssociationCode" -> StandardAssociationCode
      [] domain = "StorageType" -> StandardStorageType
      [] domain = "FilesystemType" -> StandardFilesystemType
      [] domain = "AccessType" -> StandardAccessType

\* FromPrimitive::from_u16 (the trait's default: from_u64(n as u64)) of a domain
from_u16(domain, n) ==
    CASE domain = "CommandCode" -> CommandCode_from_u64(n)
      [] domain = "ResponseCode" -> ResponseCode_from_u64(n)
      [] domain = "EventCode" -> EventCode_from_u64(n)
      [] domain = "ObjectFormatCode" -> ObjectFormatCode_from_u64(n)
      [] domain = "AssociationCode" -> AssociationCode_from_u64(n)
      [] domain = "StorageType" -> StorageType_from_u64(n)
      [] domain = "FilesystemType" -> FilesystemType_from_u64(n)
      [] domain = "AccessType" -> AccessType_from_u64(n)

\* a to_u64 that narrows the value with `as u8`
to_u64_as_u8(domain, code) ==
    IF code.class = "Standard"
    THEN SomeU64((CHOOSE n \in DOMAIN StandardOf(domain) : StandardOf(domain)[n] = code.std)
                    % 256, 0)
    ELSE IF code.class = "ImageOnly" THEN SomeU64(255, 0)
    ELSE SomeU64(code.n % 256, 0)

\* ToPrimitive::to_u64 of the code enums that implement it (ResponseCode does not)
to_u64(domain, code) ==
    IF code.class = "Standard" THEN Derived_to_u64(StandardOf(domain), code.std)
    ELSE IF code.class = "ImageOnly" THEN SomeU64(65535, 65535)
    ELSE SomeU64(code.n, 0)

\* ToPrimitive::to_u16 (the trait's default: to_u64, then the checked u64 -> u16)
to_u16(domain, code) ==
    LET x == to_u64(domain, code)
    IN IF x.some /\ x.hi = 0 THEN SomeU16(x.lo) ELSE NoU16

\* the u16 given to the classifiers: every standard constant of every domain
\* and the value after it, the ends of every top nibble, and the ends of the
\* two halves of the range
CodeInputs ==
    LET std == UNION {DOMAIN StandardOf(domain) : domain \in CodeDomains}
    IN std \cup {n + 1 : n \in std}
           \cup {k * 4096 + d : k \in 0..15, d \in {0, 1, 4095}}
           \cup {32767, 32768, 65534, 65535}

InitCodes ==
    /\ EngineIdle
    /\ fn = <<>>
    /\ arg \in [domain : CodeDomains, n : CodeInputs]
    /\ ret = NoResult

\* <domain>::from_u16(n)
FromU16 ==
    /\ fn = <<>>
    /\ fn' = <<"from_u16">>
    /\ ret' = [code |-> from_u16(arg.domain, arg.n), wire |-> NoU16]
    /\ UNCHANGED <<arg, engine_vars>>

\* code.to_u16() on the code from_u16 returned
ToU16 ==
    /\ fn = <<"from_u16">>
    /\ ret.code # NoCode
    /\ arg.domain # "ResponseCode"
    /\ fn' = Append(fn, "to_u16")
    /\ ret' = [ret EXCEPT !.wire = to_u16(arg.domain, ret.code)]
    /\ UNCHANGED <<arg, engine_vars>>

NextCodes == FromU16 \/ ToU16

SpecCodes == InitCodes /\ [][NextCodes]_vars

RoundTripDomains ==
    {"EventCode", "CommandCode", "AssociationCode", "FilesystemType", "StorageType",
     "AccessType"}

\* C12: for EventCode, CommandCode, AssociationCode, FilesystemType,
\* StorageType and AccessType, every n that from_u16 accepts is given back by
\* to_u16 of the code from_u16 returned.
C12_CodeRoundTrip ==
    (fn = <<"from_u16", "to_u16">> /\ arg.domain \in RoundTripDomains) =>
        ret.wire = SomeU16(arg.n)

\* C12's case: a standard event code went through both conversions
C12_Witness ==
    /\ fn = <<"from_u16", "to_u16">>
    /\ arg.domain = "EventCode"
    /\ arg.n = 16385
    /\ ret.code = Standard("CancelTransaction")
    /\ ret.wire = SomeU16(16385)

\* C13: for ObjectFormatCode every n that from_u16 accepts is given back by
\* to_u16, the sentinel included: from_u16(0xFFFF) = ImageOnly and
\* ImageOnly.to_u16() = 0xFFFF.
C13_ObjectFormatRoundTrip ==
    (arg.domain = "ObjectFormatCode" /\ Len(fn) >= 1) =>
        /\ arg.n = 65535 => ret.code = ImageOnly
        /\ Len(fn) = 2 => ret.wire = SomeU16(arg.n)

\* what ObjectFormatCode does hold to: every accepted n but 0xFFFF is given
\* back; ImageOnly.to_u16() is None
C13_AsImplemented ==
    (arg.domain = "ObjectFormatCode" /\ Len(fn) >= 1) =>
        /\ arg.n = 65535 => ret.code = ImageOnly
        /\ Len(fn) = 2 => ret.wire = (IF arg.n = 65535 THEN NoU16 ELSE SomeU16(arg.n))


\* C14: in every code domain, from_u16 of the wire value of a standard
\* constant s returns Standard(s), never Vendor, Reserved or Other.
C14_StandardClassified ==
    (fn # <<>> /\ arg.n \in DOMAIN StandardOf(arg.domain)) =>
        ret.code = Standard(StandardOf(arg.domain)[arg.n])

\* C14's case: a standard event code, whose top nibble is the reserved one,
\* and a standard association code were classified
C14_Witness ==
    /\ fn = <<"from_u16">>
    /\ \/ arg.domain = "EventCode" /\ arg.n = 16396
          /\ ret.code = Standard("UnreportedStatus")
       \/ arg.domain = "AssociationCode" /\ arg.n = 7
          /\ ret.code = Standard("AncillaryData")

\* C15: EventCode::from_u16 gives 0x4000 -> Standard(Undefined),
\* 0xC000 -> Vendor(0xC000), 0x4001 -> Reserved(0x4001), and
\* CommandCode::from_u16(0x1001) = Standard(GetDeviceInfo).
C15_ScenarioCodes ==
    fn # <<>> =>
        /\ (arg.domain = "EventCode" /\ arg.n = 16384) => ret.code = Standard("Undefined")
        /\ (arg.domain = "EventCode" /\ arg.n = 49152) => ret.code = Vendor(49152)
        /\ (arg.domain = "EventCode" /\ arg.n = 16385) => ret.code = Reserved(16385)
        /\ (arg.domain = "CommandCode" /\ arg.n = 4097) =>
             ret.code = Standard("GetDeviceInfo")

\* C15 amended: as C15, but 0x4001 is the standard constant CancelTransaction
\* and is classified Standard(CancelTransaction).
C15_ScenarioCodesAmended ==
    fn # <<>> =>
        /\ (arg.domain = "EventCode" /\ arg.n = 16384) => ret.code = Standard("Undefined")
        /\ (arg.domain = "EventCode" /\ arg.n = 49152) => ret.code = Vendor(49152)
        /\ (arg.domain = "EventCode" /\ arg.n = 16385) =>
             ret.code = Standard("CancelTransaction")
        /\ (arg.domain = "CommandCode" /\ arg.n = 4097) =>
             ret.code = Standard("GetDeviceInfo")

\* C15's case: the vendor event code of the scenario was classified
C15_Witness ==
    /\ fn = <<"from_u16">>
    /\ arg.domain = "EventCode"
    /\ arg.n = 49152
    /\ ret.code = Vendor(49152)

NonStandard == arg.n \notin DOMAIN StandardOf(arg.domain)

\* bits 15..12 and bit 15 of the u16 classified
TopNibble == arg.n \div 4096
TopBit == arg.n \div 32768

\* C16: a non-standard n is classified Vendor exactly when its top nibble is
\* 0xC (event, object-format, association codes) or bit 15 is set
\* (filesystem-type, storage-type, access-type); it is classified Reserved when
\* the top nibble is 0x4 (events) or 0x3 (object-format, association), and in
\* the bit-15 domains when it is not vendor.
C16_VendorReserved ==
    (fn # <<>> /\ NonStandard) =>
        /\ arg.domain \in {"EventCode", "ObjectFormatCode", "AssociationCode"} =>
             (ret.code = Vendor(arg.n) <=> TopNibble = 12)
        /\ arg.domain \in {"FilesystemType", "StorageType", "AccessType"} =>
             /\ ret.code = Vendor(arg.n) <=> TopBit = 1
             /\ TopBit = 0 => ret.code = Reserved(arg.n)
        /\ (arg.domain = "EventCode" /\ TopNibble = 4) => ret.code = Reserved(arg.n)
        /\ (arg.domain \in {"ObjectFormatCode", "AssociationCode"} /\ TopNibble = 3) =>
             ret.code = Reserved(arg.n)

\* C16 amended: a non-standard n is classified Vendor exactly when its top
\* nibble is 0xC (event codes) or 0xB (object-format codes) or bit 15 is set
\* (association codes, filesystem types), and never for storage types and
\* access types; it is classified Reserved when the top nibble is 0x4 (events)
\* or 0x3 (object-format), for association codes and filesystem types when bit
\* 15 is clear, and for storage types and access types always.
C16_VendorReservedAmended ==
    (fn # <<>> /\ NonStandard) =>
        /\ arg.domain = "EventCode" => (ret.code = Vendor(arg.n) <=> TopNibble = 12)
        /\ arg.domain = "ObjectFormatCode" =>
             (ret.code = Vendor(arg.n) <=> TopNibble = 11)
        /\ arg.domain \in {"AssociationCode", "FilesystemType"} =>
             /\ ret.code = Vendor(arg.n) <=> TopBit = 1
             /\ TopBit = 0 => ret.code = Reserved(arg.n)
        /\ arg.domain \in {"StorageType", "AccessType"} => ret.code = Reserved(arg.n)
        /\ (arg.domain = "EventCode" /\ TopNibble = 4) => ret.code = Reserved(arg.n)
        /\ (arg.domain = "ObjectFormatCode" /\ TopNibble = 3) =>
             ret.code = Reserved(arg.n)

\* C16's case: an object-format code with top nibble 0xB, an association code
\* with bit 15 set and a storage type with bit 15 set were classified
C16_Witness ==
    /\ fn = <<"from_u16">>
    /\ \/ arg.domain = "ObjectFormatCode" /\ arg.n = 45057 /\ ret.code = Vendor(45057)
       \/ arg.domain = "AssociationCode" /\ arg.n = 32768 /\ ret.code = Vendor(32768)
       \/ arg.domain = "StorageType" /\ arg.n = 32768 /\ ret.code = Reserved(32768)


---------------------------------------------------------------------------
(* Event::new *)

BadEventCode == [t |-> "BadEventCode", msg |-> "", code |-> 0, v |-> NoValue]

RECURSIVE Reverse(_)
Reverse(q) == IF q = <<>> THEN <<>> ELSE Append(Reverse(Tail(q)), Head(q))

\* params.chunks_exact(4).map(u32::from_be_bytes): a remainder of fewer than
\* four bytes is dropped
ChunksBE(params) ==
    [i \in 1..(Len(params) \div 4) |->
        ReadUnsignedLE(Reverse(SubSeq(params, 4 * i - 3, 4 * i)))]

\* an Event::new that takes an unclassified code for a reserved one
Event_new_lenient(code, params) ==
    LET ec == EventCode_from_u64(code)
    IN Ok([code |-> IF ec = NoCode THEN Reserved(code) ELSE ec,
           params |-> ChunksBE(params)])

\* Event::new
Event_new(code, params) ==
    LET ec == EventCode_from_u64(code)
    IN IF ec = NoCode THEN BadEventCode
       ELSE Ok([code |-> ec, params |-> ChunksBE(params)])

\* parameter bytes given to Event::new: none, fewer than one word, whole words,
\* and words with a remainder
ParamInputs ==
    {<<>>, <<1>>, <<1, 2, 3>>, <<1, 2, 3, 4>>, <<1, 2, 3, 4, 5>>,
     <<0, 0, 0, 7, 127, 0, 0, 1>>, <<127, 255, 255, 255, 0, 0, 0, 0, 9, 9, 9>>}

InitEvent ==
    /\ EngineIdle
    /\ fn = <<>>
    /\ arg \in [code : CodeInputs, params : ParamInputs]
    /\ ret = NoResult

\* Event::new(code, params)
EventNew ==
    /\ fn = <<>>
    /\ fn' = <<"Event::new">>
    /\ ret' = Event_new(arg.code, arg.params)
    /\ UNCHANGED <<arg, engine_vars>>

NextEvent == EventNew

SpecEvent == InitEvent /\ [][NextEvent]_vars

\* C17: Event::new fails with BadEventCode exactly when the code is neither a
\* standard event code nor has top nibble 0xC (vendor) or 0x4 (reserved); for
\* every other code it succeeds, with the code classified Standard, Vendor or
\* Reserved accordingly, whatever the parameter bytes are.
C17_BadEventCode ==
    fn = <<"Event::new">> =>
        LET standard == arg.code \in 16384..16396
            nibble == arg.code \div 4096
        IN /\ ret.t = "BadEventCode" <=> ~(standard \/ nibble = 12 \/ nibble = 4)
           /\ ret.t \in {"BadEventCode", "Ok"}
           /\ ret.t = "Ok" =>
                ret.v.code = IF standard THEN Standard(StandardEventCode[arg.code])
                             ELSE IF nibble = 12 THEN Vendor(arg.code)
                             ELSE Reserved(arg.code)

\* C17's case: a code of top nibble 0x1 was refused although the parameter
\* bytes are well-formed words
C17_Witness ==
    /\ fn = <<"Event::new">>
    /\ arg.code = 4096
    /\ arg.params = <<1, 2, 3, 4>>
    /\ ret.t = "BadEventCode"


---------------------------------------------------------------------------
(* impl ToPrimitive for Data *)

\* Option<i64> / Option<u64>
NoInt == [some |-> FALSE, v |-> 0]
SomeInt(v) == [some |-> TRUE, v |-> v]

\* a to_i64 with an arm for UINT64 as well
Data_to_i64_with_u64(d) ==
    IF d.variant \in {"INT8", "UINT8", "INT16", "UINT16", "INT32", "UINT32", "INT64",
                      "UINT64"}
    THEN SomeInt(d.v)
    ELSE NoInt

\* Data::to_i64: `*v as i64` for INT8, UINT8, INT16, UINT16, INT32, UINT32, INT64
Data_to_i64(d) ==
    IF d.variant \in {"INT8", "UINT8", "INT16", "UINT16", "INT32", "UINT32", "INT64"}
    THEN SomeInt(d.v)
    ELSE NoInt

\* Data::to_u64: `*v as u64` for UINT8, UINT16, UINT32, UINT64
Data_to_u64(d) ==
    IF d.variant \in {"UINT8", "UINT16", "UINT32", "UINT64"}
    THEN SomeInt(d.v)
    ELSE NoInt

\* v.to_i64()
DataToI64 ==
    /\ fn = <<>>
    /\ fn' = <<"to_i64">>
    /\ ret' = Data_to_i64(arg.d)
    /\ UNCHANGED <<arg, engine_vars>>

\* v.to_u64()
DataToU64 ==
    /\ fn = <<>>
    /\ fn' = <<"to_u64">>
    /\ ret' = Data_to_u64(arg.d)
    /\ UNCHANGED <<arg, engine_vars>>

NextProj == DataToI64 \/ DataToU64

SpecProj == InitData /\ [][NextProj]_vars

\* C18: to_u64 returns the value exactly for UINT8, UINT16, UINT32, UINT64 and
\* to_i64 returns the value exactly for INT8, INT16, INT32, INT64; for every
\* other variant, the unsigned ones under to_i64 included, the result is None.
C18_Projections ==
    /\ fn = <<"to_u64">> =>
         ret = IF arg.d.variant \in {"UINT8", "UINT16", "UINT32", "UINT64"}
               THEN SomeInt(arg.d.v) ELSE NoInt
    /\ fn = <<"to_i64">> =>
         ret = IF arg.d.variant \in {"INT8", "INT16", "INT32", "INT64"}
               THEN SomeInt(arg.d.v) ELSE NoInt

\* C18 amended: to_u64 as in C18; to_i64 returns the value exactly for INT8,
\* INT16, INT32, INT64 and for UINT8, UINT16, UINT32 (which fit an i64), and
\* None for UNDEF, UINT64, the 128-bit variants, the arrays and STR.
C18_ProjectionsAmended ==
    /\ fn = <<"to_u64">> =>
         ret = IF arg.d.variant \in {"UINT8", "UINT16", "UINT32", "UINT64"}
               THEN SomeInt(arg.d.v) ELSE NoInt
    /\ fn = <<"to_i64">> =>
         ret = IF arg.d.variant \in {"INT8", "INT16", "INT32", "INT64",
                                     "UINT8", "UINT16", "UINT32"}
               THEN SomeInt(arg.d.v) ELSE NoInt

\* C18's case: to_i64 refused a UINT64 and widened a negative INT8
C18_Witness ==
    /\ fn = <<"to_i64">>
    /\ \/ arg.d.variant = "UINT64" /\ arg.d.v = 16909060 /\ ret = NoInt
       \/ arg.d.variant = "INT8" /\ arg.d.v = -128 /\ ret = SomeInt(-128)


---------------------------------------------------------------------------
(* PtpPropInfo::decode *)

\* read_u8 / read_u16::<LittleEndian> with the cursor at pos
read_uint(width, buf, pos) ==
    IF pos + width > Len(buf) THEN Rd(UnexpectedEof, Len(buf))
    ELSE Rd(Ok([x |-> ReadUnsignedLE(SubSeq(buf, pos + 1, pos + width))]), pos + width)

\* `let r = x?; f(r)`: x is evaluated once; an Err returns at once
Try(x, f(_)) == CHOOSE out \in {IF r.t # "Ok" THEN r ELSE f(r) : r \in {x}} : TRUE

RECURSIVE ReadValues(_, _, _, _)
\* n values read one after the other with read_type(kind, cur)?
ReadValues(kind, buf, pos, n) ==
    IF n = 0 THEN Rd(Ok([items |-> <<>>]), pos)
    ELSE Try(read_type(kind, buf, pos), LAMBDA r :
         Try(ReadValues(kind, buf, r.pos, n - 1), LAMBDA rest :
             Rd(Ok([items |-> <<r.v.data>> \o rest.v.items]), rest.pos)))

FormNone == [form |-> "None", vals |-> <<>>]
Range(vals) == [form |-> "Range", vals |-> vals]
Enumeration(vals) == [form |-> "Enumeration", vals |-> vals]

\* a Form field whose Enumeration count is one byte
ReadForm_u8_count(data_type, buf, pos) ==
    Try(read_uint(1, buf, pos), LAMBDA b :
        IF b.v.x = 1
        THEN Try(ReadValues(data_type, buf, b.pos, 3), LAMBDA r :
                 Rd(Ok([form |-> Range(r.v.items)]), r.pos))
        ELSE IF b.v.x = 2
        THEN Try(read_uint(1, buf, b.pos), LAMBDA len :
             Try(ReadValues(data_type, buf, len.pos, len.v.x), LAMBDA r :
                 Rd(Ok([form |-> Enumeration(r.v.items)]), r.pos)))
        ELSE Rd(Ok([form |-> FormNone]), b.pos))

\* PtpPropInfo::decode, the Form field: the match on the form byte
ReadForm(data_type, buf, pos) ==
    Try(read_uint(1, buf, pos), LAMBDA b :
        IF b.v.x = 1
        THEN Try(ReadValues(data_type, buf, b.pos, 3), LAMBDA r :
                 Rd(Ok([form |-> Range(r.v.items)]), r.pos))
        ELSE IF b.v.x = 2
        THEN Try(read_uint(2, buf, b.pos), LAMBDA len :
             Try(ReadValues(data_type, buf, len.pos, len.v.x), LAMBDA r :
                 Rd(Ok([form |-> Enumeration(r.v.items)]), r.pos)))
        ELSE Rd(Ok([form |-> FormNone]), b.pos))

\* PtpPropInfo::decode with the cursor at 0
PtpPropInfo_decode(buf) ==
    Try(read_uint(2, buf, 0), LAMBDA code :
    Try(read_uint(2, buf, code.pos), LAMBDA data_type :
    Try(read_uint(1, buf, data_type.pos), LAMBDA get_set :
    Try(read_uint(1, buf, get_set.pos), LAMBDA is_enable :
    Try(ReadValues(data_type.v.x, buf, is_enable.pos, 2), LAMBDA both :
    Try(ReadForm(data_type.v.x, buf, both.pos), LAMBDA form :
        Rd(Ok([PropertyCode |-> code.v.x,
               DataType |-> data_type.v.x,
               GetSet |-> get_set.v.x,
               IsEnable |-> is_enable.v.x,
               FactoryDefault |-> both.v.items[1],
               Current |-> both.v.items[2],
               Form |-> form.v.form]),
           form.pos)))))))

\* the bytes a responder sends for a value: integers and arrays as Data::encode
\* writes them, a string in the form read_ptp_str reads (the unit count with
\* the terminator, the units, the terminator; a single 0 for the empty string)
Wire(d) ==
    IF d.variant = "STR"
    THEN (IF d.v = <<>> THEN <<0>>
          ELSE <<Len(encode_utf16(d.v)) + 1>> \o WriteUnits(encode_utf16(d.v)) \o <<0, 0>>)
    ELSE Data_encode(d, FALSE).v.bytes

RECURSIVE WireAll(_)
WireAll(ds) == IF ds = <<>> THEN <<>> ELSE Wire(Head(ds)) \o WireAll(Tail(ds))

\* data-type tags of the property descriptions: UINT8, INT16, UINT32, UINT128,
\* AUINT8, STR, and two tags read_type takes for UNDEF
PropTags == {2, 3, 6, 10, 16386, 65535, 0, 30583}

\* values of a property, per variant
PropValues(variant) ==
    CASE variant = "UINT8" -> {0, 255}
      [] variant = "INT16" -> {-2, 258}
      [] variant = "UINT32" -> {1, 16909060}
      [] variant = "UINT128" -> {<<0, 0>>, <<1, 2>>}
      [] variant = "AUINT8" -> {<<>>, <<7, 8>>}
      [] variant = "STR" -> {<<>>, <<65>>}
      [] variant = "UNDEF" -> {NoValue}

\* the property descriptions given to decode: the fixed fields, the two
\* values, the form byte, the count of an Enumeration, the values that follow,
\* and bytes after them
PropInputs(tag) ==
    LET vs == {Data(VariantOfTag(tag), v) : v \in PropValues(VariantOfTag(tag))}
    IN UNION {[code : {20483}, tag : {tag}, get_set : {1}, is_enable : {2},
               fd : vs, cur : vs, form : {form},
               count : IF form = 2 THEN 0..MaxFormVals ELSE {0},
               vals : SeqsUpTo(vs, MaxFormVals),
               tail : {<<>>, <<9>>}] : form \in {0, 1, 2, 3}}

\* the bytes of a property description
PropBytes(in) ==
    WriteLE(in.code, 2) \o WriteLE(in.tag, 2) \o <<in.get_set, in.is_enable>>
        \o Wire(in.fd) \o Wire(in.cur) \o <<in.form>>
        \o (IF in.form = 2 THEN WriteLE(in.count, 2) ELSE <<>>)
        \o WireAll(in.vals) \o in.tail

InitProp ==
    /\ EngineIdle
    /\ fn = <<>>
    /\ \E tag \in PropTags : arg \in PropInputs(tag)
    /\ ret = NoResult

\* PtpPropInfo::decode(&mut Cursor::new(bytes))
PropInfoDecode ==
    /\ fn = <<>>
    /\ fn' = <<"PtpPropInfo::decode">>
    /\ ret' = PtpPropInfo_decode(PropBytes(arg))
    /\ UNCHANGED <<arg, engine_vars>>

NextProp == PropInfoDecode

SpecProp == InitProp /\ [][NextProp]_vars

\* where the cursor stands after the form byte of the description in arg
AfterFormByte == 6 + Len(Wire(arg.fd)) + Len(Wire(arg.cur)) + 1

\* C19: decode returns the property code, the tag, get/set and is-enable,
\* factory-default and current decoded with that tag, and after the form byte:
\* for 0x01 a Range of exactly the next three values of that tag, for 0x02 an
\* Enumeration of exactly as many values as the u16 count says, for every
\* other byte None with the cursor left right after the form byte.
C19_PropInfoDecode ==
    (/\ fn = <<"PtpPropInfo::decode">>
     /\ arg.form = 1 => Len(arg.vals) >= 3
     /\ arg.form = 2 => Len(arg.vals) >= arg.count) =>
        /\ ret.t = "Ok"
        /\ ret.v.PropertyCode = arg.code
        /\ ret.v.DataType = arg.tag
        /\ ret.v.GetSet = arg.get_set
        /\ ret.v.IsEnable = arg.is_enable
        /\ ret.v.FactoryDefault = arg.fd
        /\ ret.v.Current = arg.cur
        /\ arg.form = 1 =>
             /\ ret.v.Form = [form |-> "Range", vals |-> SubSeq(arg.vals, 1, 3)]
             /\ ret.pos = AfterFormByte + Len(WireAll(SubSeq(arg.vals, 1, 3)))
        /\ arg.form = 2 =>
             /\ ret.v.Form = [form |-> "Enumeration", vals |-> SubSeq(arg.vals, 1, arg.count)]
             /\ ret.pos = AfterFormByte + 2 + Len(WireAll(SubSeq(arg.vals, 1, arg.count)))
        /\ arg.form \notin {1, 2} =>
             /\ ret.v.Form = [form |-> "None", vals |-> <<>>]
             /\ ret.pos = AfterFormByte

\* C19's case: an Enumeration of two strings was decoded and a third value
\* and a further byte were left unread
C19_Witness ==
    /\ fn = <<"PtpPropInfo::decode">>
    /\ arg.tag = 65535
    /\ arg.form = 2
    /\ arg.count = 2
    /\ Len(arg.vals) = 3
    /\ arg.tail = <<9>>
    /\ ret.t = "Ok"
    /\ ret.v.Form.form = "Enumeration"
    /\ Len(ret.v.Form.vals) = 2


---------------------------------------------------------------------------
(* The data-in payloads of the session operations. A decoded structure is  *)
(* the sequence of its fields, in the order they are read.                 *)

\* one field read with the cursor at pos, by the type of the field
ReadField(type, buf, pos) ==
    CASE type = "u16" -> read_ptp_int("UINT16", buf, pos)
      [] type = "u32" -> read_ptp_int("UINT32", buf, pos)
      [] type = "u64" -> read_ptp_int("UINT64", buf, pos)
      [] type = "str" ->
           LET r == read_ptp_str(buf, pos)
           IN IF r.t # "Ok" THEN r ELSE Rd(Ok([x |-> r.v.str]), r.pos)
      [] type = "u16_vec" ->
           LET r == read_ptp_vec("UINT16", buf, pos)
           IN IF r.t # "Ok" THEN r ELSE Rd(Ok([x |-> r.v.items]), r.pos)
      [] type = "u32_vec" ->
           LET r == read_ptp_vec("UINT32", buf, pos)
           IN IF r.t # "Ok" THEN r ELSE Rd(Ok([x |-> r.v.items]), r.pos)

RECURSIVE ReadFields(_, _, _)
\* the fields of a struct literal, each read with `?`
ReadFields(types, buf, pos) ==
    IF types = <<>> THEN Rd(Ok([fields |-> <<>>]), pos)
    ELSE Try(ReadField(Head(types), buf, pos), LAMBDA r :
         Try(ReadFields(Tail(types), buf, r.pos), LAMBDA rest :
             Rd(Ok([fields |-> <<r.v.x>> \o rest.v.fields]), rest.pos)))

\* the fields of PtpDeviceInfo, PtpObjectInfo and PtpStorageInfo
PtpDeviceInfo ==
    <<"u16", "u32", "u16", "str", "u16", "u16_vec", "u16_vec", "u16_vec", "u16_vec",
      "u16_vec", "str", "str", "str", "str">>

PtpObjectInfo ==
    <<"u32", "u16", "u16", "u32", "u16", "u32", "u32", "u32", "u32", "u32", "u32", "u32",
      "u16", "u32", "u32", "str", "str", "str", "str">>

PtpStorageInfo == <<"u16", "u16", "u16", "u64", "u64", "u32", "str", "str">>

\* PtpDeviceInfo::decode, PtpObjectInfo::decode, PtpStorageInfo::decode
PtpDeviceInfo_decode(buf) == ReadFields(PtpDeviceInfo, buf, 0)
PtpObjectInfo_decode(buf) == ReadFields(PtpObjectInfo, buf, 0)
PtpStorageInfo_decode(buf, pos) == ReadFields(PtpStorageInfo, buf, pos)

\* PtpRead::expect_end for Cursor
expect_end(buf, pos) ==
    IF Len(buf) # pos THEN Malformed("Response bytes, expected bytes") ELSE Ok(NoValue)

\* `let v = <read>?; cur.expect_end()?; Ok(v)`
ThenExpectEnd(r, buf) ==
    IF r.t # "Ok" THEN Malformed(r.msg)
    ELSE IF expect_end(buf, r.pos).t # "Ok" THEN expect_end(buf, r.pos)
    ELSE Ok(r.v)

\* `Ok(<decode>?)`
Decoded(r) == IF r.t # "Ok" THEN Malformed(r.msg) ELSE Ok(r.v)

SessionOps ==
    {"get_device_info", "get_objectinfo", "get_storage_info", "get_storageids",
     "get_objecthandles", "get_numobjects"}

\* what a session operation does with the outcome of its command()
SessionOp(op, data) ==
    IF data.t # "Ok" THEN data
    ELSE LET buf == data.v.bytes
         IN CASE op = "get_device_info" -> Decoded(PtpDeviceInfo_decode(buf))
              [] op = "get_objectinfo" -> Decoded(PtpObjectInfo_decode(buf))
              [] op = "get_storage_info" ->
                   ThenExpectEnd(PtpStorageInfo_decode(buf, 0), buf)
              [] op = "get_storageids" -> ThenExpectEnd(ReadField("u32_vec", buf, 0), buf)
              [] op = "get_objecthandles" ->
                   ThenExpectEnd(ReadField("u32_vec", buf, 0), buf)
              [] op = "get_numobjects" -> ThenExpectEnd(ReadField("u32", buf, 0), buf)


\* the value of a field of the k-th sample payload
SampleField(type, k) ==
    CASE type \in {"u16", "u32", "u64"} -> 258 * k
      [] type = "str" -> IF k = 0 THEN <<>> ELSE [i \in 1..k |-> 64 + i]
      [] type \in {"u16_vec", "u32_vec"} -> [i \in 1..k |-> 255 + i]

\* the bytes a responder sends for a field
WireField(type, v) ==
    CASE type = "u16" -> WriteLE(v, 2)
      [] type = "u32" -> WriteLE(v, 4)
      [] type = "u64" -> WriteLE(v, 8)
      [] type = "str" -> Wire(Data("STR", v))
      [] type = "u16_vec" -> Wire(Data("AUINT16", v))
      [] type = "u32_vec" -> Wire(Data("AUINT32", v))

RECURSIVE WireFields(_, _)
WireFields(types, k) ==
    IF types = <<>> THEN <<>>
    ELSE WireField(Head(types), SampleField(Head(types), k)) \o WireFields(Tail(types), k)

\* the structure the responder sends in answer to an operation
PayloadOf(op) ==
    CASE op = "get_device_info" -> PtpDeviceInfo
      [] op = "get_objectinfo" -> PtpObjectInfo
      [] op = "get_storage_info" -> PtpStorageInfo
      [] op = "get_storageids" -> <<"u32_vec">>
      [] op = "get_objecthandles" -> <<"u32_vec">>
      [] op = "get_numobjects" -> <<"u32">>

\* bytes after the structure: none, one, two
Tails == {<<>>, <<0>>, <<1, 2>>}

\* what command() returned: the k-th sample payload, cut short by `cut` bytes
\* or followed by a tail; or an error
SessionInputs ==
    [op : SessionOps, k : 0..2, cut : {0}, tail : Tails, err : {FALSE}]
        \cup [op : SessionOps, k : 0..2, cut : {1}, tail : {<<>>}, err : {FALSE}]
        \cup [op : SessionOps, k : {0}, cut : {0}, tail : {<<>>}, err : {TRUE}]

CommandResult(in) ==
    IF in.err THEN ResponseErr(8217)
    ELSE LET whole == WireFields(PayloadOf(in.op), in.k)
         IN Ok([bytes |-> SubSeq(whole, 1, Len(whole) - in.cut) \o in.tail])

InitSession ==
    /\ EngineIdle
    /\ fn = <<>>
    /\ arg \in SessionInputs
    /\ ret = NoResult

\* the session operation arg.op, from the return of its command() on
SessionDecode ==
    /\ fn = <<>>
    /\ fn' = <<arg.op>>
    /\ ret' = SessionOp(arg.op, CommandResult(arg))
    /\ UNCHANGED <<arg, engine_vars>>

NextSession == SessionDecode

SpecSession == InitSession /\ [][NextSession]_vars

\* C20: each of get_device_info, get_objectinfo, get_storage_info,
\* get_storageids, get_objecthandles and get_numobjects returns Malformed, not
\* a decoded value, when the payload holds a byte beyond the decoded structure.
C20_ExpectEnd ==
    (fn # <<>> /\ ~arg.err /\ arg.tail # <<>>) => ret.t = "Malformed"

\* what the operations do hold to: the four that call expect_end refuse a
\* payload with bytes left over; get_device_info and get_objectinfo return
\* the decoded structure and ignore them
C20_AsImplemented ==
    (fn # <<>> /\ ~arg.err /\ arg.tail # <<>>) =>
        IF arg.op \in {"get_device_info", "get_objectinfo"}
        THEN ret.t = "Ok"
             /\ ret.v.fields = [i \in 1..Len(PayloadOf(arg.op)) |->
                                   SampleField(PayloadOf(arg.op)[i], arg.k)]
        ELSE ret.t = "Malformed"


---------------------------------------------------------------------------
(* write_txn_phase on its own: payload lengths around the chunk boundaries *)

\* payload lengths given to write_txn_phase
WriteLens ==
    {0, 1, 5, CHUNK_SIZE - 13, CHUNK_SIZE - 12, CHUNK_SIZE - 11, CHUNK_SIZE,
     2 * CHUNK_SIZE - 12, 2 * CHUNK_SIZE - 11, 3 * CHUNK_SIZE}

WriteInputs ==
    [kind : {"Command", "Data"}, code : {4097, 4108, 4109}, tid : {0, 1, 7},
     plen : WriteLens]

InitWrite ==
    /\ EngineIdle
    /\ fn = <<>>
    /\ arg \in WriteInputs
    /\ ret = NoResult

\* write_txn_phase(kind, code, tid, payload, timeout): every write_bulk succeeds,
\* or the (k+1)-th fails
WriteTxnPhase ==
    /\ fn = <<>>
    /\ fn' = <<"write_txn_phase">>
    /\ LET ws == write_txn_phase(arg.kind, arg.code, arg.tid, arg.plen)
       IN \E k \in 0..Len(ws) :
            ret' = IF k = Len(ws)
                   THEN [t |-> "Ok", writes |-> ws]
                   ELSE [t |-> "Usb", writes |-> FailAt(ws, k)]
    /\ UNCHANGED <<arg, engine_vars>>

NextWrite == WriteTxnPhase

SpecWrite == InitWrite /\ [][NextWrite]_vars

\* C23: write_txn_phase issues exactly one bulk write when the payload has at
\* most CHUNK_SIZE - 12 bytes and exactly two when it has CHUNK_SIZE - 11; the
\* first write carries the 12-byte header and the first min(len, CHUNK_SIZE - 12)
\* payload bytes, every later write carries at most CHUNK_SIZE payload bytes and
\* no header, and the writes together are header ++ payload: each write's slice
\* starts where the one before ended and the last ends at the payload's end.
C23_Chunking ==
    (fn = <<"write_txn_phase">> /\ ret.t = "Ok") =>
        LET ws == ret.writes
            plen == arg.plen
        IN /\ plen <= CHUNK_SIZE - 12 => Len(ws) = 1
           /\ plen = CHUNK_SIZE - 11 => Len(ws) = 2
           /\ Len(ws) >= 1
           /\ Len(ws[1].hdr) = 12
           /\ ws[1].hdr = WriteLE(plen + 12, 4)
                            \o WriteLE(PtpContainerType_as_u16(arg.kind), 2)
                            \o WriteLE(arg.code, 2) \o WriteLE(arg.tid, 4)
           /\ ws[1].lo = 0
           /\ ws[1].hi = (IF plen < CHUNK_SIZE - 12 THEN plen ELSE CHUNK_SIZE - 12)
           /\ \A i \in 2..Len(ws) :
                /\ ws[i].hdr = <<>>
                /\ ws[i].lo = ws[i - 1].hi
                /\ ws[i].hi > ws[i].lo
                /\ ws[i].hi - ws[i].lo <= CHUNK_SIZE
           /\ ws[Len(ws)].hi = plen
           /\ \A i \in DOMAIN ws : ws[i].dir = "out" /\ ws[i].ok

\* a payload of 2 * CHUNK_SIZE - 11 bytes went out in three writes
C23_Witness ==
    /\ fn = <<"write_txn_phase">> /\ ret.t = "Ok"
    /\ arg.plen = 2 * CHUNK_SIZE - 11
    /\ Len(ret.writes) = 3
    /\ ret.writes[3].hi - ret.writes[3].lo = 1

---------------------------------------------------------------------------
(* read_txn_phase on its own: one container as the responder may deliver it *)

\* the first read_bulk: it fails, or delivers n bytes (at most the buffer's 8192)
\* of a container whose header announces len bytes and the kind k
ReadInputs ==
    { [err |-> TRUE, n |-> 0, tag |-> "-",
       h |-> [len |-> 0, kind |-> 0, code |-> 0, tid |-> 0]] }
    \cup { [err |-> FALSE, n |-> n, tag |-> "a",
            h |-> [len |-> len, kind |-> k, code |-> RESPONSE_OK, tid |-> 0]] :
            n \in {0, 8, 12, 16, 20, READ_BUF_SIZE},
            len \in {10, 11, 12, 20, READ_BUF_SIZE, READ_BUF_SIZE + 12, 20000},
            k \in {KIND_COMMAND, KIND_DATA, KIND_RESPONSE, KIND_EVENT, 9} }

InitRead ==
    /\ EngineIdle
    /\ fn = <<>>
    /\ arg \in ReadInputs
    /\ ret = NoResult

\* read_txn_phase(timeout)
ReadTxnPhase ==
    /\ fn = <<>>
    /\ fn' = <<"read_txn_phase">>
    /\ \E d2 \in SecondReadsOf(arg, overflow_checks) :
         ret' = read_txn_phase(arg, d2, overflow_checks)
    /\ UNCHANGED <<arg, engine_vars>>

NextRead == ReadTxnPhase

SpecRead == InitRead /\ [][NextRead]_vars

\* C24: for a container whose header advertises payload_len > 0, read_txn_phase
\* keeps reading until payload_len bytes are received and the last read was
\* short, or a zero-length packet is received; so when it returns Ok and no read
\* was zero-length, the returned payload holds exactly payload_len bytes,
\* however the device splits the payload across transfers.
C24_WholePayload ==
    (/\ fn = <<"read_txn_phase">>
     /\ ret.res.t = "Ok"
     /\ ret.res.v.info.payload_len > 0
     /\ \A i \in DOMAIN ret.reads : ret.reads[i].hi > 0) =>
        ret.res.v.payload.len = ret.res.v.info.payload_len

\* what read_txn_phase does: at most two reads, and the payload is whatever the
\* two transfers delivered after the header
C24_AsImplemented ==
    (fn = <<"read_txn_phase">> /\ ret.res.t = "Ok" /\ ret.res.v.info.payload_len > 0) =>
        /\ Len(ret.reads) <= 2
        /\ ret.res.v.payload.len =
             (ret.reads[1].hi - 12) + (IF Len(ret.reads) = 2 THEN ret.reads[2].hi ELSE 0)

\* C25 as stated: whenever the initial read returns exactly 8192 bytes, one
\* additional bulk-in read is issued before the phase returns.
C25_DrainAlways ==
    (/\ fn = <<"read_txn_phase">>
     /\ ret.res.t # "Panic"
     /\ ret.reads[1].ok /\ ret.reads[1].hi = 8192) =>
        Len(ret.reads) = 2

\* C25: whenever the initial read returns exactly 8192 bytes, whose header
\* parses and advertises a payload_len other than 0, one additional bulk-in
\* read is issued before the phase returns, also when the bytes already
\* received cover the advertised payload_len.
C25_DrainAfterFullBuffer ==
    (/\ fn = <<"read_txn_phase">>
     /\ ret.res.t # "Panic"
     /\ ret.reads[1].ok /\ ret.reads[1].hi = 8192
     /\ arg.h.kind \in {1, 2, 3, 4}
     /\ arg.h.len # 12) =>
        Len(ret.reads) = 2

\* a container of exactly 8192 bytes arrived whole and a zero-length read followed
C25_Witness ==
    /\ fn = <<"read_txn_phase">> /\ ret.res.t = "Ok"
    /\ arg.h.len = 8192
    /\ ret.reads[1].hi = 8192
    /\ ret.res.v.info.payload_len = 8180
    /\ Len(ret.reads) = 2 /\ ret.reads[2].hi = 0
    /\ ret.res.v.payload.len = 8180

==========================================================================
